---- MODULE Spec2Model ----
(***************************************************************************)
(* Pay-per-play session lifecycle and Stats Store of the Snake402 server.  *)
(* The server is one event loop: every handler runs to its next await      *)
(* without interruption, and a sqlite3 callback resumes it later.  Each    *)
(* action below is one such uninterrupted run.                             *)
(***************************************************************************)
EXTENDS Integers, Sequences, FiniteSets, TLC

(* ------------------------------- bounds -------------------------------- *)
MaxReq == 2        \* submit-score requests issued in one behaviour
MaxTime == 2       \* Date.now() takes the values 1..MaxTime
MaxUuid == 1       \* session ids generated by randomUUID()
MaxClientId == 1   \* session ids chosen by clients ("session_<time>")
MaxFees == 2       \* recordEntryFee calls issued in one behaviour
MaxCycles == 2     \* runPayoutCycle invocations and rejected triggers in one behaviour
MaxStoredFees == 3 \* entry fees found in the database file at start
MaxSubs == 2       \* /events/payouts connections opened in one behaviour
MaxEvents == 3     \* Payout events received from the contract in one behaviour

(* ------------------------------- inputs -------------------------------- *)
UuidIds == {<<"uuid", i>> : i \in 1..MaxUuid}
ClientIds == {<<"session", i>> : i \in 1..MaxClientId}
SessionIds == UuidIds \cup ClientIds

NoWallet == "none"            \* undefined / missing wallet
Wallets == {"w1", "w2", "w3", "w4"}
Submitters == {"w1", "w2"}    \* the wallets that submit scores in one behaviour
Scores == {-1, 1, 2}          \* typeof score === 'number'

\* transaction hashes by what the handler looks at: presence and length
TxHashes == {"", "0xshort", "0x1234567890ab"}

ENTRY_FEE_NUM == 1            \* one entry fee, in units of ENTRY_FEE_USDC

DAY == 1                      \* 24 * 60 * 60 * 1000 ms: the clock counts in days
usdcDecimals == 6             \* Base USDC uses 6 decimals

VARIABLES
    SANDBOX_MODE,         \* process.env.SANDBOX_MODE === 'true'
    now,                  \* the clock read by Date.now() / new Date()
    sessions,             \* Map<string, GameSession>
    recordedFeeSessions,  \* Set<string>
    feeWrites,            \* recordEntryFee calls whose INSERT has not completed
    entry_fees,           \* the entry_fees table, in insertion order
    player_stats,         \* the player_stats table, by wallet
    daily_player_stats,   \* the daily_player_stats table, by wallet
    req,                  \* the submit-score requests: position, locals, response
    verifyRes,            \* the response of the latest verify-payment call
    created,              \* history: how many session objects each id has had
    funded,               \* history: how many session objects each txHash has made Paid
    ENABLE_ONCHAIN_PAYOUTS, \* the on-chain settlement is enabled and configured
    isPayoutRunning,      \* the overlap flag of /admin/run-payout
    lastPayoutAt,         \* scheduler state reported by /payouts/status
    nextPayoutAt,
    lastTxHash,           \* the cycle whose endCycle transaction was the last to succeed
    lastTxLink,           \* the explorer link of that transaction
    timerAt,              \* when the setInterval timer fires next
    cycle,                \* the runPayoutCycle invocations: position, locals, response
    logWrites,            \* appendPayoutLog calls whose fs.appendFile has not completed
    payoutsLog,           \* the lines of payouts.log
    ADMIN_TOKEN,          \* process.env.ADMIN_TOKEN
    ENABLE_SSE_PAYOUTS,   \* the Payout event listener is enabled and configured
    leaderboardRes,       \* the response of the latest leaderboard request
    sseClients,           \* SseClient[]: the subscribed connections, in joining order
    sseRes,               \* the response stream of each /events/payouts connection
    published,            \* history: the events handed to broadcastPayout, in order
    client                \* the browser client: its React state and the game it started

payoutVars == <<ENABLE_ONCHAIN_PAYOUTS, isPayoutRunning, lastPayoutAt, nextPayoutAt,
                lastTxHash, lastTxLink, timerAt, cycle, logWrites, payoutsLog>>

httpVars == <<ADMIN_TOKEN, ENABLE_SSE_PAYOUTS, leaderboardRes, sseClients, sseRes, published,
              client>>

vars == <<SANDBOX_MODE, now, sessions, recordedFeeSessions, feeWrites, entry_fees,
          player_stats, daily_player_stats, req, verifyRes, created, funded, payoutVars, httpVars>>

(* ----------------------------- GameSession ----------------------------- *)
NoSession == [absent |-> TRUE]
NoDate == 0

GameSession(t) == [isPaid |-> FALSE, createdAt |-> t, paidAt |-> NoDate, wallet |-> NoWallet]

\* mutant: the paid timestamp is written only the first time
MarkPaid_OnlyOnce(session, t) ==
    [session EXCEPT !.isPaid = TRUE, !.paidAt = IF @ = NoDate THEN t ELSE @]

MarkPaid(session, t) == [session EXCEPT !.isPaid = TRUE, !.paidAt = t]

SessionState(session) ==
    IF session = NoSession THEN "Absent"
    ELSE IF session.isPaid THEN "Paid" ELSE "Created"

(* ------------------------------ Stats Store ---------------------------- *)
NoRow == [absent |-> TRUE]

OrZero(row, field) == IF row = NoRow THEN 0 ELSE row[field]

MathMax(a, b) == IF a >= b THEN a ELSE b

NewPlayerStats(currentStats, score, timestamp) ==
    [totalScore  |-> OrZero(currentStats, "totalScore") + score,
     highScore   |-> MathMax(OrZero(currentStats, "highScore"), score),
     gamesPlayed |-> OrZero(currentStats, "gamesPlayed") + 1,
     lastPlayed  |-> timestamp]

NewDailyPlayerStats(current, score, timestamp) ==
    [totalScoreDaily  |-> OrZero(current, "totalScoreDaily") + score,
     highScoreDaily   |-> MathMax(OrZero(current, "highScoreDaily"), score),
     gamesPlayedDaily |-> OrZero(current, "gamesPlayedDaily") + 1,
     lastPlayedDaily  |-> timestamp]

\* mutant: the reset deletes the rows
ResetDailyRow_Delete(row) == NoRow

\* UPDATE daily_player_stats SET total_score_daily = 0, high_score_daily = 0,
\* games_played_daily = 0   (last_played_daily is not in the SET list)
ResetDailyRow(row) ==
    IF row = NoRow THEN NoRow
    ELSE [row EXCEPT !.totalScoreDaily = 0, !.highScoreDaily = 0, !.gamesPlayedDaily = 0]

(* ------------------------------- requests ------------------------------ *)
Req == 1..MaxReq

NoId == <<"none", 0>>

IdleReq ==
    [pc |-> "idle", sessionId |-> NoId, wallet |-> NoWallet, score |-> 0,
     timestamp |-> 0, computed |-> NoRow, updatedStats |-> NoRow, status |-> 0,
     before |-> "None", payer |-> NoWallet, object |-> 0, lifetimeWritten |-> FALSE]
\* pc .. status are the handler's position, locals and response; the rest is history:
\* before/payer = state and wallet of the session the check looked at, object = which
\* session object of that id it was, lifetimeWritten = its player_stats write was applied

NoCall == [sessionId |-> NoId, status |-> 0, before |-> "Absent"]

(* ---------------------------- payout cycles ---------------------------- *)
Cycles == 1..MaxCycles

NoTx == 0                     \* lastTxHash === null

\* mutant: no link is built
buildExplorerTxLink_Null(txHash) == <<"null">>

\* Build a BaseScan URL for a transaction hash
NoLink == <<"null">>
buildExplorerTxLink(txHash) == IF txHash = NoTx THEN NoLink ELSE <<"basescan.org/tx/", txHash>>

NoRewards == [w \in {} |-> 0] \* new Map<string, number>()

NoError == ""
ErrorMessages == {"insufficient funds", "execution reverted"}   \* (err as Error).message

IdleCycle ==
    [pc |-> "idle", trigger |-> "none", now |-> 0, cutoff |-> 0, totalPool |-> 0,
     sumTotalScores |-> 0, sumHighScores |-> 0, totalEntries |-> <<>>, highEntries |-> <<>>,
     rewardTotalMap |-> NoRewards, rewardHighMap |-> NoRewards,
     winnersArray |-> <<>>, rewardsArray |-> <<>>, status |-> 0,
     error |-> NoError,
     windowStart |-> 0, endCycleCalls |-> 0, settlement |-> "none", outcome |-> "none"]
\* pc .. error are the invocation's position, locals, (manual trigger) response and the
\* message of the error its inner catch caught; the
\* rest is history: windowStart = lastPayoutAt when it started, endCycleCalls = how often
\* it called the contract, settlement = how that ended, outcome = completed or aborted

(* ------------------------------ admin token --------------------------- *)
NoToken == ""                 \* the variable or the header is not set
ConfiguredToken == "secret"

(* ------------------------- leaderboard responses ----------------------- *)
NoBoard == [status |-> 0, scope |-> "none", type |-> "none", limit |-> 0, leaderboard |-> <<>>]

(* ---------------------------- event streams ---------------------------- *)
SseIds == 1..MaxSubs          \* randomUUID() of each connection

PayoutEvents == {"e1", "e2"}  \* {to, amount, txHash} of a Payout event

NoRes == [socket |-> "none", written |-> <<>>, joined |-> 0, closed |-> 0]
\* socket: none = not yet connected, open, slow = open with a full send buffer,
\* destroyed = the peer is gone and 'close' has not been delivered, closed;
\* written = the events that reached the socket; history: joined / closed = how many
\* events had been published when the connection was opened / was lost

(* ------------------------------ the client ---------------------------- *)
HomeClient ==
    [pc |-> "home", paymentInfo |-> NoId, before |-> {}, sessionId |-> NoId,
     granted |-> NoId, submitted |-> FALSE]
\* pc: home, joining (POST /join sent), paying (402 received, transaction under way),
\* playing, over; paymentInfo = paymentInfo?.sessionId of the React state (NoId: null);
\* sessionId = the sessionId the UIScene of the running game was given (NoId: undefined);
\* submitted = showGameOver posted the score; history: before = the ids /api/join had
\* issued when the request was sent, granted = the id of the session the server marked
\* paid for this game

(* ---------------------------- stored tables ---------------------------- *)
\* snake402.db outlives the process (CREATE TABLE IF NOT EXISTS): at start the tables hold
\* what earlier runs left.  A stored player is the result of the store's own updates.
RECURSIVE LifetimeAfter(_)
LifetimeAfter(games) ==
    IF games = <<>> THEN NoRow
    ELSE NewPlayerStats(LifetimeAfter(SubSeq(games, 1, Len(games) - 1)), games[Len(games)], 0)

RECURSIVE DailyAfter(_)
DailyAfter(games) ==
    IF games = <<>> THEN NoRow
    ELSE NewDailyPlayerStats(DailyAfter(SubSeq(games, 1, Len(games) - 1)), games[Len(games)], 0)

\* what an earlier run left of one player: the games played since the last daily reset,
\* or one game played before it
StoredPlayers == <<[games |-> <<>>, reset |-> FALSE], [games |-> <<20>>, reset |-> TRUE],
                 [games |-> <<10>>, reset |-> FALSE], [games |-> <<20>>, reset |-> FALSE],
                 [games |-> <<10, 20>>, reset |-> FALSE]>>

\* wallet names are interchangeable: the stored players are handed out in one order
WalletSeq == <<"w1", "w2", "w3", "w4">>

StoredTables ==
    {[w \in Wallets |-> StoredPlayers[k[CHOOSE i \in 1..Len(WalletSeq) : WalletSeq[i] = w]]] :
        k \in {f \in [1..Len(WalletSeq) -> 1..Len(StoredPlayers)] :
                  \A i \in 1..(Len(WalletSeq) - 1) : f[i] <= f[i + 1]}}

StoredFees(n) == [i \in 1..n |-> [amount |-> ENTRY_FEE_NUM, timestamp |-> 0]]

\* a fresh database: no player has a row
NoPlayers == [w \in Wallets |-> StoredPlayers[1]]

\* the state after the module is loaded
Boot(sandbox, onchain, sse, adminToken, fees, players) ==
    /\ SANDBOX_MODE = sandbox
    /\ now = 1
    /\ sessions = [id \in SessionIds |-> NoSession]
    /\ recordedFeeSessions = {}
    /\ feeWrites = <<>>
    /\ entry_fees = fees
    /\ player_stats = [w \in Wallets |-> LifetimeAfter(players[w].games)]
    /\ daily_player_stats =
           [w \in Wallets |-> IF players[w].reset
                               THEN ResetDailyRow(DailyAfter(players[w].games))
                               ELSE DailyAfter(players[w].games)]
    /\ req = [r \in Req |-> IdleReq]
    /\ verifyRes = NoCall
    /\ created = [id \in SessionIds |-> 0]
    /\ funded = [txHash \in TxHashes |-> 0]
    /\ ENABLE_ONCHAIN_PAYOUTS = onchain
    /\ isPayoutRunning = FALSE
    /\ lastPayoutAt = 1
    /\ nextPayoutAt = 1 + DAY
    /\ lastTxHash = NoTx
    /\ lastTxLink = NoLink
    /\ timerAt = 1 + DAY
    /\ cycle = [c \in Cycles |-> IdleCycle]
    /\ logWrites = {}
    /\ payoutsLog = <<>>
    /\ ADMIN_TOKEN = adminToken
    /\ ENABLE_SSE_PAYOUTS = sse
    /\ leaderboardRes = NoBoard
    /\ sseClients = <<>>
    /\ sseRes = [id \in SseIds |-> NoRes]
    /\ published = <<>>
    /\ client = HomeClient

\* a fresh database, the admin endpoints and the Payout event listener enabled
Init ==
    \E sandbox, onchain \in BOOLEAN :
        Boot(sandbox, onchain, TRUE, ConfiguredToken, <<>>, NoPlayers)

\* a fresh database, the admin token set or not
InitAdmin ==
    \E onchain \in BOOLEAN, adminToken \in {NoToken, ConfiguredToken} :
        Boot(TRUE, onchain, TRUE, adminToken, <<>>, NoPlayers)

\* a fresh database, the Payout event listener enabled or not
InitEvents ==
    \E onchain, sse \in BOOLEAN :
        Boot(TRUE, onchain, sse, ConfiguredToken, <<>>, NoPlayers)

\* a database left by earlier runs: fees and players
InitStored ==
    \E onchain \in BOOLEAN, n \in 0..MaxStoredFees, players \in StoredTables :
        Boot(TRUE, onchain, TRUE, ConfiguredToken, StoredFees(n), players)

\* a database left by earlier runs: players only, settlement not configured
InitPlayers ==
    \E players \in StoredTables :
        Boot(TRUE, FALSE, TRUE, ConfiguredToken, <<>>, players)

(* the clock advances between events *)
Tick ==
    /\ now < MaxTime
    /\ now' = now + 1
    /\ UNCHANGED <<SANDBOX_MODE, sessions, recordedFeeSessions, feeWrites, entry_fees,
                   player_stats, daily_player_stats, req, verifyRes, created, funded,
                   payoutVars, httpVars>>

(* ------------------------ fee recording (shared) ----------------------- *)
\* if (!recordedFeeSessions.has(sessionId)) db.recordEntryFee(ENTRY_FEE_NUM)...
\* recordEntryFee takes its timestamp when it is called; the INSERT completes later
IssuesFeeWrite(sessionId) == sessionId \notin recordedFeeSessions

FeeWritesAfter(sessionId) ==
    IF IssuesFeeWrite(sessionId)
    THEN Append(feeWrites, [sessionId |-> sessionId, amount |-> ENTRY_FEE_NUM, timestamp |-> now])
    ELSE feeWrites

FeeBudget(sessionId) ==
    IssuesFeeWrite(sessionId) => Len(feeWrites) + Len(entry_fees) < MaxFees

RemoveAt(seq, i) == SubSeq(seq, 1, i - 1) \o SubSeq(seq, i + 1, Len(seq))

\* the INSERT of a pending recordEntryFee completes: .then(() => recordedFeeSessions.add)
RecordEntryFeeDone(i) ==
    /\ i \in 1..Len(feeWrites)
    /\ entry_fees' = Append(entry_fees, [amount |-> feeWrites[i].amount,
                                          timestamp |-> feeWrites[i].timestamp])
    /\ recordedFeeSessions' = recordedFeeSessions \cup {feeWrites[i].sessionId}
    /\ feeWrites' = RemoveAt(feeWrites, i)
    /\ UNCHANGED <<SANDBOX_MODE, now, sessions, player_stats, daily_player_stats, req,
                   verifyRes, created, funded,
                   payoutVars, httpVars>>

\* the INSERT fails: .catch logs, nothing else happens
RecordEntryFeeError(i) ==
    /\ i \in 1..Len(feeWrites)
    /\ feeWrites' = RemoveAt(feeWrites, i)
    /\ UNCHANGED <<SANDBOX_MODE, now, sessions, recordedFeeSessions, entry_fees,
                   player_stats, daily_player_stats, req, verifyRes, created, funded,
                   payoutVars, httpVars>>

(* ------------------------------ POST /api/join ------------------------- *)
\* reached only through the x402 middleware; randomUUID() is an id never used before
FreshUuid(sessionId) ==
    /\ sessionId \in UuidIds
    /\ created[sessionId] = 0
    /\ \A other \in UuidIds : other[2] < sessionId[2] => created[other] > 0

Join(sessionId) ==
    /\ FreshUuid(sessionId)
    /\ FeeBudget(sessionId)
    /\ sessions' = [sessions EXCEPT ![sessionId] = MarkPaid(GameSession(now), now)]
    /\ created' = [created EXCEPT ![sessionId] = @ + 1]
    /\ feeWrites' = FeeWritesAfter(sessionId)
    /\ UNCHANGED <<SANDBOX_MODE, now, recordedFeeSessions, entry_fees, player_stats,
                   daily_player_stats, req, verifyRes, funded,
                   payoutVars, httpVars>>

(* -------------------------- POST /api/verify-payment ------------------- *)
MissingTxHash(txHash) == txHash = ""

\* mutant: the basic validation of the production branch is dropped
TxHashAccepted_NoValidation(txHash) == TRUE

\* if (txHash && txHash.length > 10)  -- "Basic validation"; sandbox accepts any
TxHashAccepted(txHash) == SANDBOX_MODE \/ Len(txHash) > 10

\* let session = sessions.get(sessionId); if (!session) { session = {...}; sessions.set }
GetOrCreate(table, sessionId, t) ==
    IF table[sessionId] = NoSession THEN GameSession(t) ELSE table[sessionId]

VerifyResponse(sessionId, status) ==
    [sessionId |-> sessionId, status |-> status, before |-> SessionState(sessions[sessionId])]

\* the ids a client can name are its own and the ones /api/join has returned
VerifyPayment(sessionId, txHash) ==
    /\ sessionId \in ClientIds \cup {id \in UuidIds : created[id] > 0}
    /\ \/ /\ MissingTxHash(txHash)
          /\ verifyRes' = VerifyResponse(sessionId, 400)
          /\ UNCHANGED <<sessions, feeWrites, created, funded>>
       \/ /\ ~MissingTxHash(txHash)
          /\ TxHashAccepted(txHash)
          /\ FeeBudget(sessionId)
          /\ sessions' = [sessions EXCEPT
                            ![sessionId] = MarkPaid(GetOrCreate(sessions, sessionId, now), now)]
          /\ created' = [created EXCEPT
                            ![sessionId] = IF sessions[sessionId] = NoSession THEN @ + 1 ELSE @]
          /\ funded' = [funded EXCEPT
                            ![txHash] = IF SessionState(sessions[sessionId]) = "Paid"
                                        THEN @ ELSE @ + 1]
          /\ feeWrites' = FeeWritesAfter(sessionId)
          /\ verifyRes' = VerifyResponse(sessionId, 200)
       \/ /\ ~MissingTxHash(txHash)
          /\ ~TxHashAccepted(txHash)
          /\ sessions' = [sessions EXCEPT ![sessionId] = GetOrCreate(sessions, sessionId, now)]
          /\ created' = [created EXCEPT
                            ![sessionId] = IF sessions[sessionId] = NoSession THEN @ + 1 ELSE @]
          /\ verifyRes' = VerifyResponse(sessionId, 400)
          /\ UNCHANGED <<feeWrites, funded>>
    /\ UNCHANGED <<SANDBOX_MODE, now, recordedFeeSessions, entry_fees, player_stats,
                   daily_player_stats, req,
                   payoutVars, httpVars>>

(* --------------------------- POST /api/submit-score -------------------- *)
\* if (!sessionId || !wallet || typeof score !== 'number')
MissingFields(sessionId, wallet) == sessionId = NoId \/ wallet = NoWallet

\* mutant: the check only looks for the session, not at its paid flag
InvalidSession_NoPaidCheck(session) == session = NoSession

\* if (!session || !session.isPaid)
InvalidSession(session) == session = NoSession \/ ~session.isPaid

\* the handler up to its first await: validation, session check, db.updatePlayerStats called
SubmitScore(r, sessionId, wallet, score) ==
    /\ req[r].pc = "idle"
    /\ r > 1 => req[r - 1].pc # "idle"
    /\ LET q == [IdleReq EXCEPT !.sessionId = sessionId, !.wallet = wallet, !.score = score]
       IN  req' = [req EXCEPT ![r] =
                IF MissingFields(sessionId, wallet)
                  THEN [IdleReq EXCEPT !.pc = "done", !.status = 400]
                ELSE IF InvalidSession(sessions[sessionId])
                  THEN [IdleReq EXCEPT !.pc = "done", !.status = 403,
                                       !.sessionId = sessionId,
                                       !.before = SessionState(sessions[sessionId])]
                ELSE [q EXCEPT !.pc = "getPlayerStats", !.timestamp = now,
                               !.before = SessionState(sessions[sessionId]),
                               !.payer = sessions[sessionId].wallet,
                               !.object = created[sessionId]]]
    /\ UNCHANGED <<SANDBOX_MODE, now, sessions, recordedFeeSessions, feeWrites, entry_fees,
                   player_stats, daily_player_stats, verifyRes, created, funded,
                   payoutVars, httpVars>>

\* updatePlayerStats: the SELECT of getPlayerStats returns, the new row is computed
GetPlayerStatsDone(r) ==
    /\ req[r].pc = "getPlayerStats"
    /\ req' = [req EXCEPT ![r].pc = "runPlayerStats",
                          ![r].computed = NewPlayerStats(player_stats[req[r].wallet],
                                                         req[r].score, req[r].timestamp)]
    /\ UNCHANGED <<SANDBOX_MODE, now, sessions, recordedFeeSessions, feeWrites, entry_fees,
                   player_stats, daily_player_stats, verifyRes, created, funded,
                   payoutVars, httpVars>>

\* updatePlayerStats: INSERT OR REPLACE done, resolve(row); the handler goes on to
\* call updateDailyPlayerStats, which takes its timestamp and issues its SELECT
RunPlayerStatsDone(r) ==
    /\ req[r].pc = "runPlayerStats"
    /\ player_stats' = [player_stats EXCEPT ![req[r].wallet] = req[r].computed]
    /\ req' = [req EXCEPT ![r].pc = "getDailyPlayerStats",
                          ![r].updatedStats = req[r].computed,
                          ![r].computed = NoRow,
                          ![r].timestamp = now,
                          ![r].lifetimeWritten = TRUE]
    /\ UNCHANGED <<SANDBOX_MODE, now, sessions, recordedFeeSessions, feeWrites, entry_fees,
                   daily_player_stats, verifyRes, created, funded,
                   payoutVars, httpVars>>

\* updateDailyPlayerStats: the SELECT of getDailyPlayerStats returns
GetDailyPlayerStatsDone(r) ==
    /\ req[r].pc = "getDailyPlayerStats"
    /\ req' = [req EXCEPT ![r].pc = "runDailyPlayerStats",
                          ![r].computed = NewDailyPlayerStats(daily_player_stats[req[r].wallet],
                                                              req[r].score, req[r].timestamp)]
    /\ UNCHANGED <<SANDBOX_MODE, now, sessions, recordedFeeSessions, feeWrites, entry_fees,
                   player_stats, daily_player_stats, verifyRes, created, funded,
                   payoutVars, httpVars>>

\* sessions.delete(sessionId)
Expire(table, sessionId) == [table EXCEPT ![sessionId] = NoSession]

\* updateDailyPlayerStats: INSERT OR REPLACE done; the handler expires the session
\* and answers 200 with the lifetime row
RunDailyPlayerStatsDone(r) ==
    /\ req[r].pc = "runDailyPlayerStats"
    /\ daily_player_stats' = [daily_player_stats EXCEPT ![req[r].wallet] = req[r].computed]
    /\ sessions' = Expire(sessions, req[r].sessionId)
    /\ req' = [req EXCEPT ![r].pc = "done", ![r].status = 200, ![r].computed = NoRow]
    /\ UNCHANGED <<SANDBOX_MODE, now, recordedFeeSessions, feeWrites, entry_fees,
                   player_stats, verifyRes, created, funded,
                   payoutVars, httpVars>>

\* mutant: the session is expired also when the update failed
AfterStoreError_Consume(table, sessionId) == Expire(table, sessionId)

\* catch (error) { console.error; res.status(500) }: sessions.delete is not reached
AfterStoreError(table, sessionId) == table

\* any of the four sqlite calls calls back with err: reject, catch, 500
StoreError(r) ==
    /\ req[r].pc \in {"getPlayerStats", "runPlayerStats",
                      "getDailyPlayerStats", "runDailyPlayerStats"}
    /\ req' = [req EXCEPT ![r].pc = "done", ![r].status = 500, ![r].computed = NoRow]
    /\ sessions' = AfterStoreError(sessions, req[r].sessionId)
    /\ UNCHANGED <<SANDBOX_MODE, now, recordedFeeSessions, feeWrites, entry_fees,
                   player_stats, daily_player_stats, verifyRes, created, funded,
                   payoutVars, httpVars>>

(* ------------------------- Stats Store: daily reads -------------------- *)
ScoreColumn(type) == IF type = "total" THEN "totalScoreDaily" ELSE "highScoreDaily"

\* WHERE ${scoreColumn} > 0
Qualifying(type) ==
    {w \in Wallets : /\ daily_player_stats[w] # NoRow
                     /\ daily_player_stats[w][ScoreColumn(type)] > 0}

RECURSIVE SumColumn(_, _)
SumColumn(ws, column) ==
    IF ws = {} THEN 0
    ELSE LET w == CHOOSE x \in ws : TRUE
         IN  daily_player_stats[w][column] + SumColumn(ws \ {w}, column)

\* SELECT COALESCE(SUM(col), 0) FROM daily_player_stats WHERE col > 0
getDailyScoresSum(type) == SumColumn(Qualifying(type), ScoreColumn(type))

\* mutant: the LIMIT clause is ignored
Cut_NoLimit(n, limit) == n

\* LIMIT ?: at most limit rows; SQLite takes a negative LIMIT as no limit
Cut(n, limit) == IF limit < 0 \/ limit > n THEN n ELSE limit

\* SELECT wallet, col AS score ... WHERE col > 0 ORDER BY col DESC LIMIT ?: the rows with
\* a positive score in an order that is descending by score, cut after the limit; SQL
\* leaves the order of equal scores open
Rows(table, col, limit) ==
    LET Q == {w \in Wallets : table[w] # NoRow /\ table[w][col] > 0}
        n == Cardinality(Q)
        Ranked == {g \in [1..n -> Q] :
                     /\ \A i, j \in 1..n : i # j => g[i] # g[j]
                     /\ \A i \in 1..(n - 1) : table[g[i]][col] >= table[g[i + 1]][col]}
    IN  {[i \in 1..Cut(n, limit) |-> [wallet |-> g[i], score |-> table[g[i]][col]]] :
            g \in Ranked}

\* rows.map((row, index) => ({ rank: index + 1, wallet: row.wallet, score: row.score, ... }))
Entries(rows) ==
    [i \in 1..Len(rows) |-> [rank |-> i, wallet |-> rows[i].wallet, score |-> rows[i].score]]

LifetimeColumn(type) == IF type = "total" THEN "totalScore" ELSE "highScore"

getLeaderboard(type, limit) ==
    {Entries(rows) : rows \in Rows(player_stats, LifetimeColumn(type), limit)}

getDailyLeaderboard(type, limit) ==
    {Entries(rows) : rows \in Rows(daily_player_stats, ScoreColumn(type), limit)}

resetDailyStats(table) == [w \in Wallets |-> ResetDailyRow(table[w])]

RECURSIVE SumAmounts(_)
SumAmounts(fees) ==
    IF fees = <<>> THEN 0 ELSE Head(fees).amount + SumAmounts(Tail(fees))

\* SELECT COALESCE(SUM(amount), 0) FROM entry_fees WHERE timestamp >= ?
getTotalEntryFeesSince(cutoff) ==
    SumAmounts(SelectSeq(entry_fees, LAMBDA fee : fee.timestamp >= cutoff))

(* ---------------------------- reward allocation ------------------------ *)
\* amounts are counted in the minimal unit of USDC (10^-6); a share that is not a
\* whole number of units is kept exact as a fraction num/den of one unit

Percent(totalPool, pct) == (totalPool * 10^usdcDecimals * pct) \div 100

poolTotal(totalPool) == Percent(totalPool, 70)
poolHigh(totalPool) == Percent(totalPool, 25)
poolTreasury(totalPool) == Percent(totalPool, 5)

Keys(entries) == {entries[i].wallet : i \in 1..Len(entries)}

\* entries.find(e => e.wallet === wallet)?.score || 0
ScoreOf(entries, wallet) ==
    IF wallet \in Keys(entries)
    THEN entries[CHOOSE i \in 1..Len(entries) : entries[i].wallet = wallet].score
    ELSE 0

\* mutant: the volume shares are computed also for an empty pool
AllocatesVolume_NoPoolCheck(sumTotalScores, pool) == sumTotalScores > 0

\* if (sumTotalScores > 0 && poolTotal > 0)
AllocatesVolume(sumTotalScores, pool) == sumTotalScores > 0 /\ pool > 0

\* share = (e.score / sumTotalScores) * poolTotal, for every entry
RewardTotalMap(totalEntries, sumTotalScores, pool) ==
    IF AllocatesVolume(sumTotalScores, pool)
    THEN [w \in Keys(totalEntries) |->
             [num |-> ScoreOf(totalEntries, w) * pool, den |-> sumTotalScores]]
    ELSE NoRewards

Top(highEntries) ==
    SubSeq(highEntries, 1, IF Len(highEntries) < 3 THEN Len(highEntries) ELSE 3)

\* mutant: the three-player split is used whatever the number of players
HighShares_Flat(n) == <<60, 25, 15>>

\* 1 player: 100%; 2 players: 70% / 30%; 3+ players: 60% / 25% / 15%
HighShares(n) == IF n = 1 THEN <<100>> ELSE IF n = 2 THEN <<70, 30>> ELSE <<60, 25, 15>>

RewardHighMap(highEntries, pool) ==
    LET top == Top(highEntries)
    IN  IF pool > 0 /\ Len(highEntries) > 0
        THEN [w \in Keys(top) |->
                 (pool * HighShares(Len(top))[CHOOSE i \in 1..Len(top) : top[i].wallet = w])
                     \div 100]
        ELSE NoRewards

\* new Set([...rewardTotalMap.keys(), ...rewardHighMap.keys()]) in insertion order
WalletOrder(totalEntries, highEntries, totalMap, highMap) ==
    LET walletOf(entries) == [i \in 1..Len(entries) |-> entries[i].wallet]
    IN  SelectSeq(walletOf(totalEntries), LAMBDA w : w \in DOMAIN totalMap)
        \o SelectSeq(walletOf(Top(highEntries)),
                     LAMBDA w : w \in DOMAIN highMap /\ w \notin DOMAIN totalMap)

\* mutant: the peak share is left out of the award
Reward_VolumeOnly(totalMap, highMap, wallet) ==
    IF wallet \in DOMAIN totalMap THEN totalMap[wallet] ELSE [num |-> 0, den |-> 1]

\* (rewardTotalMap.get(wallet) || 0) + (rewardHighMap.get(wallet) || 0)
Reward(totalMap, highMap, wallet) ==
    LET t == IF wallet \in DOMAIN totalMap THEN totalMap[wallet] ELSE [num |-> 0, den |-> 1]
        h == IF wallet \in DOMAIN highMap THEN highMap[wallet] ELSE 0
    IN  [num |-> t.num + h * t.den, den |-> t.den]

\* mutant: the fraction of a unit is cut off
toUnits_Truncate(x) == x.num \div x.den

\* BigInt(Math.round(x * 10^6)); reward.toFixed(6) rounds to the same unit
toUnits(x) == (2 * x.num + x.den) \div (2 * x.den)

(* ------------------------------ payouts.log ---------------------------- *)
LogEntry(c, type, wallet, totalScore, highScore, amount) ==
    [cycle |-> c, type |-> type, wallet |-> wallet, totalScore |-> totalScore,
     highScore |-> highScore, amount |-> amount, error |-> NoError,
     timestamp |-> cycle[c].now]

\* { type: 'onchain_endCycle_error', error: (err as Error).message, timestamp }
ErrorEntry(c, message) ==
    [LogEntry(c, "onchain_endCycle_error", NoWallet, 0, 0, 0) EXCEPT !.error = message]

RewardEntries(c, totalEntries, highEntries, totalMap, highMap) ==
    {LogEntry(c, "reward", w, ScoreOf(totalEntries, w), ScoreOf(highEntries, w),
              toUnits(Reward(totalMap, highMap, w))) :
        w \in DOMAIN totalMap \cup DOMAIN highMap}

TreasuryEntry(c, totalPool) ==
    LogEntry(c, "treasury", NoWallet, 0, 0, poolTreasury(totalPool))

\* fs.appendFile of a pending appendPayoutLog completes
AppendFileDone(entry) ==
    /\ entry \in logWrites
    /\ logWrites' = logWrites \ {entry}
    /\ payoutsLog' = Append(payoutsLog, entry)
    /\ UNCHANGED <<SANDBOX_MODE, now, sessions, recordedFeeSessions, feeWrites, entry_fees,
                   player_stats, daily_player_stats, req, verifyRes, created, funded,
                   ENABLE_ONCHAIN_PAYOUTS, isPayoutRunning, lastPayoutAt, nextPayoutAt,
                   lastTxHash, lastTxLink, timerAt, cycle, httpVars>>

\* fs.appendFile fails: the error is logged to the console, the line is lost
AppendFileError(entry) ==
    /\ entry \in logWrites
    /\ logWrites' = logWrites \ {entry}
    /\ UNCHANGED <<SANDBOX_MODE, now, sessions, recordedFeeSessions, feeWrites, entry_fees,
                   player_stats, daily_player_stats, req, verifyRes, created, funded,
                   ENABLE_ONCHAIN_PAYOUTS, isPayoutRunning, lastPayoutAt, nextPayoutAt,
                   lastTxHash, lastTxLink, timerAt, cycle, payoutsLog, httpVars>>

(* ----------------------------- runPayoutCycle -------------------------- *)
PayoutLimit == 1000           \* db.getDailyLeaderboard(type, 1000)

serverVars == <<SANDBOX_MODE, now, sessions, recordedFeeSessions, feeWrites, entry_fees,
                player_stats, req, verifyRes, created, funded, ENABLE_ONCHAIN_PAYOUTS,
                httpVars>>

FreeSlot(c) == cycle[c].pc = "idle" /\ (c > 1 => cycle[c - 1].pc # "idle")

\* runPayoutCycle up to its first await: now, cutoff, db.getTotalEntryFeesSince called
Started(trigger) ==
    [IdleCycle EXCEPT !.pc = "getTotalEntryFeesSince", !.trigger = trigger, !.now = now,
                      !.cutoff = now - DAY, !.windowStart = lastPayoutAt]

\* setInterval(runPayoutCycle, 24h): the timer calls runPayoutCycle directly
SetIntervalFires(c) ==
    /\ FreeSlot(c)
    /\ now >= timerAt
    /\ timerAt' = timerAt + DAY
    /\ cycle' = [cycle EXCEPT ![c] = Started("timer")]
    /\ UNCHANGED <<serverVars, daily_player_stats, isPayoutRunning, lastPayoutAt,
                   nextPayoutAt, lastTxHash, lastTxLink, logWrites, payoutsLog>>

\* POST /admin/run-payout from an authorised caller, up to the first await
AdminRunPayout(c) ==
    /\ FreeSlot(c)
    /\ IF isPayoutRunning
       THEN /\ cycle' = [cycle EXCEPT ![c] = [IdleCycle EXCEPT !.pc = "done",
                                                !.trigger = "manual", !.status = 409]]
            /\ UNCHANGED isPayoutRunning
       ELSE /\ cycle' = [cycle EXCEPT ![c] = Started("manual")]
            /\ isPayoutRunning' = TRUE
    /\ UNCHANGED <<serverVars, daily_player_stats, lastPayoutAt, nextPayoutAt, lastTxHash,
                   lastTxLink, timerAt, logWrites, payoutsLog>>

\* the Authorization header, <<scheme, credentials>>, <<>> when it is missing; scheme ""
\* is a header that holds the credentials only
Authorizations ==
    {<<>>} \cup {<<scheme, token>> : scheme \in {"Bearer", "Basic", ""},
                                     token \in {"secret", "wrong"}}

\* the x-admin-token header, NoToken when it is missing
HeaderTokens == {NoToken, "secret", "wrong"}

\* (req.headers.authorization || '').replace(/^Bearer\s+/i, '')
Bearer(authorization) ==
    IF authorization = <<>> THEN NoToken
    ELSE IF authorization[1] \in {"Bearer", ""} THEN authorization[2]
    ELSE authorization[1] \o " " \o authorization[2]

\* mutant: without a configured token the admin endpoints are open
requireAdmin_OpenWhenUnset(authorization, header) ==
    IF ADMIN_TOKEN = NoToken THEN 0
    ELSE LET bearer == Bearer(authorization)
             token == IF bearer # NoToken THEN bearer ELSE header
         IN  IF token # ADMIN_TOKEN THEN 401 ELSE 0

\* requireAdmin: the status it answers with, 0 when it calls next()
requireAdmin(authorization, header) ==
    IF ADMIN_TOKEN = NoToken THEN 503
    ELSE LET bearer == Bearer(authorization)
             token == IF bearer # NoToken THEN bearer ELSE header
         IN  IF token # ADMIN_TOKEN THEN 401 ELSE 0

\* POST /admin/run-payout: requireAdmin, then the handler
PostRunPayout(c, authorization, header) ==
    IF requireAdmin(authorization, header) = 0
    THEN AdminRunPayout(c)
    ELSE /\ FreeSlot(c)
         /\ cycle' = [cycle EXCEPT ![c] =
                [IdleCycle EXCEPT !.pc = "done", !.trigger = "manual",
                                  !.status = requireAdmin(authorization, header)]]
         /\ UNCHANGED <<serverVars, daily_player_stats, isPayoutRunning, lastPayoutAt,
                        nextPayoutAt, lastTxHash, lastTxLink, timerAt, logWrites,
                        payoutsLog>>

GetTotalEntryFeesSinceDone(c) ==
    /\ cycle[c].pc = "getTotalEntryFeesSince"
    /\ cycle' = [cycle EXCEPT ![c].pc = "getDailyScoresSumTotal",
                              ![c].totalPool = getTotalEntryFeesSince(cycle[c].cutoff)]
    /\ UNCHANGED <<serverVars, daily_player_stats, isPayoutRunning, lastPayoutAt,
                   nextPayoutAt, lastTxHash, lastTxLink, timerAt, logWrites, payoutsLog>>

GetDailyScoresSumTotalDone(c) ==
    /\ cycle[c].pc = "getDailyScoresSumTotal"
    /\ cycle' = [cycle EXCEPT ![c].pc = "getDailyScoresSumHigh",
                              ![c].sumTotalScores = getDailyScoresSum("total")]
    /\ UNCHANGED <<serverVars, daily_player_stats, isPayoutRunning, lastPayoutAt,
                   nextPayoutAt, lastTxHash, lastTxLink, timerAt, logWrites, payoutsLog>>

GetDailyScoresSumHighDone(c) ==
    /\ cycle[c].pc = "getDailyScoresSumHigh"
    /\ cycle' = [cycle EXCEPT ![c].pc = "getDailyLeaderboardTotal",
                              ![c].sumHighScores = getDailyScoresSum("high")]
    /\ UNCHANGED <<serverVars, daily_player_stats, isPayoutRunning, lastPayoutAt,
                   nextPayoutAt, lastTxHash, lastTxLink, timerAt, logWrites, payoutsLog>>

GetDailyLeaderboardTotalDone(c) ==
    /\ cycle[c].pc = "getDailyLeaderboardTotal"
    /\ \E entries \in getDailyLeaderboard("total", PayoutLimit) :
          cycle' = [cycle EXCEPT ![c].pc = "getDailyLeaderboardHigh",
                                 ![c].totalEntries = entries]
    /\ UNCHANGED <<serverVars, daily_player_stats, isPayoutRunning, lastPayoutAt,
                   nextPayoutAt, lastTxHash, lastTxLink, timerAt, logWrites, payoutsLog>>

\* winnersArray.push(wallet); rewardsArray.push(toUnits(reward)) in one loop
RewardsArray(winners, totalMap, highMap) ==
    [i \in 1..Len(winners) |-> toUnits(Reward(totalMap, highMap, winners[i]))]

\* mutant: one contract call per winner
EndCycleCalls_PerPlayer(winners) == Len(winners)

\* await prizePool.endCycle(winnersArray, rewardsArray): one call with both lists
EndCycleCalls(winners) == 1

\* the last read returns; the allocation is computed, every appendPayoutLog is called,
\* and prizePool.endCycle (or, without settlement, db.resetDailyStats) is called
GetDailyLeaderboardHighDone(c) ==
    /\ cycle[c].pc = "getDailyLeaderboardHigh"
    /\ \E highEntries \in getDailyLeaderboard("high", PayoutLimit) :
          LET totalEntries == cycle[c].totalEntries
              totalMap == RewardTotalMap(totalEntries, cycle[c].sumTotalScores,
                                         poolTotal(cycle[c].totalPool))
              highMap == RewardHighMap(highEntries, poolHigh(cycle[c].totalPool))
              winners == WalletOrder(totalEntries, highEntries, totalMap, highMap)
          IN  /\ cycle' = [cycle EXCEPT
                    \* if (ENABLE_ONCHAIN_PAYOUTS && PRIZE_POOL_CONTRACT && ...)
                    ![c].pc = IF ENABLE_ONCHAIN_PAYOUTS THEN "endCycle"
                                                       ELSE "resetDailyStats",
                    ![c].highEntries = highEntries,
                    ![c].rewardTotalMap = totalMap,
                    ![c].rewardHighMap = highMap,
                    ![c].winnersArray = winners,
                    ![c].rewardsArray = RewardsArray(winners, totalMap, highMap),
                    ![c].endCycleCalls = IF ENABLE_ONCHAIN_PAYOUTS
                                         THEN EndCycleCalls(winners) ELSE 0,
                    ![c].settlement = IF ENABLE_ONCHAIN_PAYOUTS THEN "called" ELSE "skipped"]
              /\ logWrites' = logWrites
                                \cup RewardEntries(c, totalEntries, highEntries, totalMap, highMap)
                                \cup {TreasuryEntry(c, cycle[c].totalPool)}
    /\ UNCHANGED <<serverVars, daily_player_stats, isPayoutRunning, lastPayoutAt,
                   nextPayoutAt, lastTxHash, lastTxLink, timerAt, payoutsLog>>

\* await prizePool.endCycle(winnersArray, rewardsArray) returns the transaction
EndCycleDone(c) ==
    /\ cycle[c].pc = "endCycle"
    /\ cycle' = [cycle EXCEPT ![c].pc = "txWait"]
    /\ UNCHANGED <<serverVars, daily_player_stats, isPayoutRunning, lastPayoutAt,
                   nextPayoutAt, lastTxHash, lastTxLink, timerAt, logWrites, payoutsLog>>

\* await tx.wait() returns the receipt: log it, remember the transaction, go on to reset
TxWaitDone(c) ==
    /\ cycle[c].pc = "txWait"
    /\ cycle' = [cycle EXCEPT ![c].pc = "resetDailyStats", ![c].settlement = "succeeded"]
    /\ lastTxHash' = c
    /\ lastTxLink' = buildExplorerTxLink(c)
    /\ logWrites' = logWrites \cup {LogEntry(c, "onchain_endCycle", NoWallet, 0, 0, 0)}
    /\ UNCHANGED <<serverVars, daily_player_stats, isPayoutRunning, lastPayoutAt,
                   nextPayoutAt, timerAt, payoutsLog>>

\* mutant: a failed settlement aborts the cycle
AfterSettlementError_Abort == "done"

\* the inner catch falls through to the daily reset
AfterSettlementError == "resetDailyStats"

\* endCycle or tx.wait() throws: inner catch, error entry, go on to reset
EndCycleError(c, message) ==
    /\ cycle[c].pc \in {"endCycle", "txWait"}
    /\ cycle' = [cycle EXCEPT ![c].pc = AfterSettlementError, ![c].settlement = "failed",
                              ![c].error = message]
    /\ logWrites' = logWrites \cup {ErrorEntry(c, message)}
    /\ UNCHANGED <<serverVars, daily_player_stats, isPayoutRunning, lastPayoutAt,
                   nextPayoutAt, lastTxHash, lastTxLink, timerAt, payoutsLog>>

\* runPayoutCycle returns; the manual handler resumes in the same turn of the event loop:
\* isPayoutRunning = false; res.json({status: 'ok', ...})
Returned(c, outcome) ==
    [cycle[c] EXCEPT !.pc = "done", !.outcome = outcome,
                     !.status = IF cycle[c].trigger = "manual" THEN 200 ELSE 0]

\* mutant: the manual handler does not clear the flag
FlagAfter_Sticky(c) == isPayoutRunning

\* isPayoutRunning = false after await runPayoutCycle(); the timer does not touch it
FlagAfter(c) == IF cycle[c].trigger = "manual" THEN FALSE ELSE isPayoutRunning

\* mutant: the schedule is advanced also by a cycle that was aborted
ScheduleAfter_Always(c, outcome) == <<cycle[c].now, cycle[c].now + DAY>>

\* lastPayoutAt = now; nextPayoutAt = now + 24h -- after await db.resetDailyStats() only
ScheduleAfter(c, outcome) ==
    IF outcome = "completed" THEN <<cycle[c].now, cycle[c].now + DAY>>
    ELSE <<lastPayoutAt, nextPayoutAt>>

\* await db.resetDailyStats() returns: the schedule is advanced, the cycle is over
ResetDailyStatsDone(c) ==
    /\ cycle[c].pc = "resetDailyStats"
    /\ daily_player_stats' = resetDailyStats(daily_player_stats)
    /\ lastPayoutAt' = ScheduleAfter(c, "completed")[1]
    /\ nextPayoutAt' = ScheduleAfter(c, "completed")[2]
    /\ cycle' = [cycle EXCEPT ![c] = Returned(c, "completed")]
    /\ isPayoutRunning' = FlagAfter(c)
    /\ UNCHANGED <<serverVars, lastTxHash, lastTxLink, timerAt, logWrites, payoutsLog>>

\* one of the awaited db calls rejects: outer catch, console.error, return
PayoutStoreError(c) ==
    /\ cycle[c].pc \in {"getTotalEntryFeesSince", "getDailyScoresSumTotal",
                        "getDailyScoresSumHigh", "getDailyLeaderboardTotal",
                        "getDailyLeaderboardHigh", "resetDailyStats"}
    /\ lastPayoutAt' = ScheduleAfter(c, "aborted")[1]
    /\ nextPayoutAt' = ScheduleAfter(c, "aborted")[2]
    /\ cycle' = [cycle EXCEPT ![c] = Returned(c, "aborted")]
    /\ isPayoutRunning' = FlagAfter(c)
    /\ UNCHANGED <<serverVars, daily_player_stats, lastTxHash, lastTxLink, timerAt, logWrites,
                   payoutsLog>>

(* ----------------------------- GET /leaderboard ------------------------ *)
\* req.query.limit by what parseInt makes of it: <<>> = NaN (missing or no number)
NoQuery == <<>>
QueryLimits == {NoQuery} \cup {<<n>> : n \in {-1, 0, 1, 2, 3}}
DefaultLimit == 10

\* parseInt(req.query.limit as string) || 10
ParseLimit(query) == IF query = NoQuery \/ query[1] = 0 THEN DefaultLimit ELSE query[1]

\* GET /leaderboard/{total|high} and /leaderboard/daily/{total|high}: the entries of the
\* response are those the store returns
GetLeaderboard(scope, type, query) ==
    /\ \E entries \in IF scope = "lifetime"
                       THEN getLeaderboard(type, ParseLimit(query))
                       ELSE getDailyLeaderboard(type, ParseLimit(query)) :
          leaderboardRes' = [status |-> 200, scope |-> scope, type |-> type,
                             limit |-> ParseLimit(query), leaderboard |-> entries]
    /\ UNCHANGED <<SANDBOX_MODE, now, sessions, recordedFeeSessions, feeWrites, entry_fees,
                   player_stats, daily_player_stats, req, verifyRes, created, funded,
                   payoutVars, ADMIN_TOKEN, ENABLE_SSE_PAYOUTS, sseClients, sseRes, published,
                   client>>

\* the store call rejects: 500 'Failed to fetch leaderboard'
GetLeaderboardError(scope, type, query) ==
    /\ leaderboardRes' = [status |-> 500, scope |-> scope, type |-> type,
                          limit |-> ParseLimit(query), leaderboard |-> <<>>]
    /\ UNCHANGED <<SANDBOX_MODE, now, sessions, recordedFeeSessions, feeWrites, entry_fees,
                   player_stats, daily_player_stats, req, verifyRes, created, funded,
                   payoutVars, ADMIN_TOKEN, ENABLE_SSE_PAYOUTS, sseClients, sseRes, published,
                   client>>

(* --------------------------- GET /events/payouts ----------------------- *)
notSseVars == <<SANDBOX_MODE, now, sessions, recordedFeeSessions, feeWrites, entry_fees,
                player_stats, daily_player_stats, req, verifyRes, created, funded,
                payoutVars, ADMIN_TOKEN, ENABLE_SSE_PAYOUTS, leaderboardRes, client>>

\* mutant: a new subscriber is sent the events published so far
InitialStream_Replay(events) == events

\* setHeader x 3, flushHeaders: nothing of the past is written to a new connection
InitialStream(events) == <<>>

\* the handler: headers, id = randomUUID(), sseClients.push({ id, res })
Subscribe(id) ==
    /\ sseRes[id].socket = "none"
    /\ id > 1 => sseRes[id - 1].socket # "none"
    /\ sseClients' = Append(sseClients, id)
    /\ sseRes' = [sseRes EXCEPT ![id] = [socket |-> "open",
                                          written |-> InitialStream(published),
                                          joined |-> Len(published), closed |-> 0]]
    /\ UNCHANGED <<notSseVars, published>>

\* the subscriber stops reading: the send buffer of its socket fills up
Stall(id) ==
    /\ sseRes[id].socket = "open"
    /\ sseRes' = [sseRes EXCEPT ![id].socket = "slow"]
    /\ UNCHANGED <<notSseVars, sseClients, published>>

\* the subscriber reads again
Drain(id) ==
    /\ sseRes[id].socket = "slow"
    /\ sseRes' = [sseRes EXCEPT ![id].socket = "open"]
    /\ UNCHANGED <<notSseVars, sseClients, published>>

\* the connection is lost; 'close' has not been emitted yet
Disconnect(id) ==
    /\ sseRes[id].socket \in {"open", "slow"}
    /\ sseRes' = [sseRes EXCEPT ![id].socket = "destroyed", ![id].closed = Len(published)]
    /\ UNCHANGED <<notSseVars, sseClients, published>>

\* req.on('close'): idx = sseClients.findIndex(c => c.id === id); splice(idx, 1)
OnClose(id) ==
    /\ sseRes[id].socket = "destroyed"
    /\ sseRes' = [sseRes EXCEPT ![id].socket = "closed"]
    /\ sseClients' = SelectSeq(sseClients, LAMBDA c : c # id)
    /\ UNCHANGED <<notSseVars, published>>

\* c.res.write(line): queued on a live socket, whether or not its buffer is full
\* (write returns false then); on a destroyed socket the line is dropped and the
\* error is reported asynchronously, write does not throw
ResWrite(res, event) ==
    IF res.socket \in {"open", "slow"}
    THEN [res EXCEPT !.written = Append(@, event)]
    ELSE res

\* mutant: the loop ends at the first subscriber whose socket is gone
RECURSIVE ForEachWrite_StopAtFailure(_, _, _)
ForEachWrite_StopAtFailure(clients, streams, event) ==
    IF clients = <<>> \/ streams[Head(clients)].socket = "destroyed" THEN streams
    ELSE ForEachWrite_StopAtFailure(
             Tail(clients),
             [streams EXCEPT ![Head(clients)] = ResWrite(@, event)], event)

\* sseClients.forEach(c => c.res.write(line))
RECURSIVE ForEachWrite(_, _, _)
ForEachWrite(clients, streams, event) ==
    IF clients = <<>> THEN streams
    ELSE ForEachWrite(Tail(clients),
                      [streams EXCEPT ![Head(clients)] = ResWrite(@, event)], event)

\* contract.on('Payout', ...): broadcastPayout({ to, amount, txHash }); the listener is
\* registered by initPayoutEventListener only if ENABLE_SSE_PAYOUTS is set
BroadcastPayout(event) ==
    /\ ENABLE_SSE_PAYOUTS
    /\ Len(published) < MaxEvents
    /\ published' = Append(published, event)
    /\ sseRes' = ForEachWrite(sseClients, sseRes, event)
    /\ UNCHANGED <<notSseVars, sseClients>>

(* ------------------------------- the client --------------------------- *)
notClientVars == <<SANDBOX_MODE, now, sessions, recordedFeeSessions, feeWrites, entry_fees,
                   player_stats, daily_player_stats, req, verifyRes, created, funded,
                   payoutVars, ADMIN_TOKEN, ENABLE_SSE_PAYOUTS, leaderboardRes,
                   sseClients, sseRes, published>>

\* handlePlayClick: joinGame posts /join through x402-fetch
HandlePlayClick ==
    /\ client.pc = "home"
    /\ client' = [client EXCEPT !.pc = "joining",
                                !.before = {id \in UuidIds : created[id] > 0}]
    /\ UNCHANGED notClientVars

\* startGameCountdown: new Phaser.Game, then uiScene.scene.restart({ walletAddress,
\* sessionId: paymentInfo?.sessionId, ... }) with the paymentInfo of the render that
\* ran the caller
StartedGame(paymentInfo, granted) ==
    [client EXCEPT !.pc = "playing", !.sessionId = paymentInfo, !.granted = granted,
                   !.submitted = FALSE]

\* joinGame: response.ok, the payment was made by x402-fetch and /api/join created the
\* paid session sessionId; return { success: true }; handlePlayClick: startGameCountdown()
JoinGranted(sessionId) ==
    /\ client.pc = "joining"
    /\ sessionId \in UuidIds \ client.before
    /\ created[sessionId] > 0
    /\ client' = StartedGame(client.paymentInfo, sessionId)
    /\ UNCHANGED notClientVars

\* joinGame: response.status === 402: paymentInfo = { sessionId: `session_${Date.now()}` };
\* handlePlayClick: setPaymentInfo(result.paymentInfo), handleAutoPayment
PaymentRequired(sessionId) ==
    /\ client.pc = "joining"
    /\ sessionId \in ClientIds
    /\ client' = [client EXCEPT !.pc = "paying", !.paymentInfo = sessionId]
    /\ UNCHANGED notClientVars

\* joinGameWithPayment: /verify-payment answered 200 for paymentInfo.sessionId:
\* setPaymentInfo(null), startGameCountdown() of the render that had paymentInfo set
VerifyGranted ==
    /\ client.pc = "paying"
    /\ verifyRes.sessionId = client.paymentInfo
    /\ verifyRes.status = 200
    /\ client' = [StartedGame(client.paymentInfo, client.paymentInfo)
                     EXCEPT !.paymentInfo = NoId]
    /\ UNCHANGED notClientVars

\* UIScene.showGameOver: if (this.walletAddress && this.sessionId) submitScore(finalScore)
\* else 'Score not submitted (missing session data)'; the wallet is connected
ShowGameOver ==
    /\ client.pc = "playing"
    /\ client' = [client EXCEPT !.pc = "over", !.submitted = (client.sessionId # NoId)]
    /\ UNCHANGED notClientVars

\* restartGame -> goHomeCallback = stopGame: the game is destroyed, setPaymentInfo(null)
StopGame ==
    /\ client.pc = "over"
    /\ client' = [HomeClient EXCEPT !.before = client.before]
    /\ UNCHANGED notClientVars

Registry ==
    \/ \E sessionId \in UuidIds : Join(sessionId)
    \/ \E sessionId \in SessionIds, txHash \in TxHashes : VerifyPayment(sessionId, txHash)

FeeJournal ==
    \/ \E i \in 1..MaxFees : RecordEntryFeeDone(i)
    \/ \E i \in 1..MaxFees : RecordEntryFeeError(i)

Submit(slots, scores) ==
    \E r \in slots, sessionId \in SessionIds, wallet \in Submitters \cup {NoWallet},
       score \in scores : SubmitScore(r, sessionId, wallet, score)

StatsStore ==
    \/ \E r \in Req : GetPlayerStatsDone(r)
    \/ \E r \in Req : RunPlayerStatsDone(r)
    \/ \E r \in Req : GetDailyPlayerStatsDone(r)
    \/ \E r \in Req : RunDailyPlayerStatsDone(r)
    \/ \E r \in Req : StoreError(r)

Scheduler ==
    \/ \E c \in Cycles : SetIntervalFires(c)
    \/ \E c \in Cycles : AdminRunPayout(c)

PayoutEngine ==
    \/ \E c \in Cycles : GetTotalEntryFeesSinceDone(c)
    \/ \E c \in Cycles : GetDailyScoresSumTotalDone(c)
    \/ \E c \in Cycles : GetDailyScoresSumHighDone(c)
    \/ \E c \in Cycles : GetDailyLeaderboardTotalDone(c)
    \/ \E c \in Cycles : GetDailyLeaderboardHighDone(c)
    \/ \E c \in Cycles : ResetDailyStatsDone(c)
    \/ \E c \in Cycles : PayoutStoreError(c)

Settlement ==
    \/ \E c \in Cycles : EndCycleDone(c)
    \/ \E c \in Cycles : TxWaitDone(c)
    \/ \E c \in Cycles, message \in ErrorMessages : EndCycleError(c, message)

PayoutLog ==
    \/ \E entry \in logWrites : AppendFileDone(entry)
    \/ \E entry \in logWrites : AppendFileError(entry)

Admin ==
    \E c \in Cycles, authorization \in Authorizations, header \in HeaderTokens :
        PostRunPayout(c, authorization, header)

Leaderboards ==
    \E scope \in {"lifetime", "daily"}, type \in {"total", "high"}, query \in QueryLimits :
        \/ GetLeaderboard(scope, type, query)
        \/ GetLeaderboardError(scope, type, query)

Subscribers ==
    \/ \E id \in SseIds : Subscribe(id)
    \/ \E id \in SseIds : Stall(id)
    \/ \E id \in SseIds : Drain(id)
    \/ \E id \in SseIds : Disconnect(id)
    \/ \E id \in SseIds : OnClose(id)

Broadcaster == \E event \in PayoutEvents : BroadcastPayout(event)

Client ==
    \/ HandlePlayClick
    \/ \E sessionId \in UuidIds : JoinGranted(sessionId)
    \/ \E sessionId \in ClientIds : PaymentRequired(sessionId)
    \/ VerifyGranted
    \/ ShowGameOver
    \/ StopGame

\* the whole server
Next ==
    \/ Tick \/ Registry \/ FeeJournal \/ Submit(Req, Scores) \/ StatsStore
    \/ Scheduler \/ PayoutEngine \/ Settlement \/ PayoutLog
    \/ Subscribers \/ Broadcaster \/ Leaderboards \/ Admin \/ Client

Spec == Init /\ [][Next]_vars

\* the session lifecycle: the whole server with one score submission
SpecLifecycle ==
    Init /\ [][Tick \/ Registry \/ FeeJournal \/ Submit({1}, Scores) \/ StatsStore]_vars

\* overlapping score submissions: the whole server with the clock held, the fee
\* INSERTs still pending and scores a game can produce
GameScores == {score \in Scores : score >= 0}

SpecConcurrent == Init /\ [][Registry \/ Submit(Req, GameScores) \/ StatsStore]_vars

\* the session table alone: join and verify-payment against the clock
SpecRegistry == Init /\ [][Tick \/ Registry]_vars

\* one score submission with the clock held and the fee INSERTs still pending
SpecSubmit == Init /\ [][Registry \/ Submit({1}, Scores) \/ StatsStore]_vars

\* what the payout engine works on: joins and one score submission
Players ==
    \/ \E sessionId \in UuidIds : Join(sessionId)
    \/ Submit({1}, GameScores)
    \/ StatsStore

\* one manually triggered payout cycle
SpecCycle ==
    Init /\ [][\/ Tick \/ Players \/ FeeJournal
             \/ AdminRunPayout(1) \/ PayoutEngine \/ Settlement \/ PayoutLog
          ]_vars

\* the scheduler: timer and manual triggers against the clock and the fee journal
SpecSchedule ==
    Init /\ [][\/ Tick
             \/ \E sessionId \in UuidIds : Join(sessionId)
             \/ FeeJournal
             \/ Scheduler \/ PayoutEngine \/ Settlement
          ]_vars

\* the triggers alone: timer and manual runs against the clock, no players
SpecTrigger == Init /\ [][Tick \/ Scheduler \/ PayoutEngine \/ Settlement]_vars

\* one manual cycle over the daily table, the fee INSERTs and log writes still pending
SpecReset == Init /\ [][Tick \/ Players \/ AdminRunPayout(1) \/ PayoutEngine \/ Settlement]_vars

\* one manual cycle with fees, scores and the payout log, the clock held
SpecSettle ==
    Init /\ [][\/ Players \/ FeeJournal
             \/ AdminRunPayout(1) \/ PayoutEngine \/ Settlement \/ PayoutLog
          ]_vars

\* one manual cycle over the tables an earlier run left: no submission in flight
SpecAllocation == InitStored /\ [][AdminRunPayout(1) \/ PayoutEngine \/ Settlement]_vars

\* manual cycles with settlement and the payout log written, no players
SpecAudit ==
    Init /\ [][\/ \E c \in Cycles : AdminRunPayout(c)
             \/ PayoutEngine \/ Settlement
             \/ \E entry \in logWrites : AppendFileDone(entry)
          ]_vars

\* the event streams alone: subscribers against the Payout events of the contract
SpecBroadcast == Init /\ [][Subscribers \/ Broadcaster]_vars

\* leaderboard requests over the tables an earlier run left
SpecLeaderboard == InitPlayers /\ [][Leaderboards]_vars

\* the admin endpoint: any caller against a server with or without an admin token
SpecAdmin == InitAdmin /\ [][Admin \/ PayoutEngine \/ Settlement]_vars

\* the fee journal: payments, fee INSERTs that complete, and score submissions
SpecFees ==
    Init /\ [][\/ Registry
             \/ \E i \in 1..MaxFees : RecordEntryFeeDone(i)
             \/ Submit(Req, {1}) \/ StatsStore
          ]_vars

\* one browser client against the session table and the clock
SpecClient == Init /\ [][Tick \/ Registry \/ Client]_vars

\* the call that invocation c of runPayoutCycle awaits returns: it resolves or rejects
CycleReturns(c) ==
    \/ GetTotalEntryFeesSinceDone(c) \/ GetDailyScoresSumTotalDone(c)
    \/ GetDailyScoresSumHighDone(c) \/ GetDailyLeaderboardTotalDone(c)
    \/ GetDailyLeaderboardHighDone(c) \/ ResetDailyStatsDone(c) \/ PayoutStoreError(c)
    \/ EndCycleDone(c) \/ TxWaitDone(c)
    \/ \E message \in ErrorMessages : EndCycleError(c, message)

\* timer and manual runs where every store and ledger call returns in the end
SpecLive == SpecTrigger /\ \A c \in Cycles : WF_vars(CycleReturns(c))

\* manual cycles against the Payout events of the contract: every store and ledger
\* call returns in the end, and so does every event a registered listener is due
SpecEvents ==
    /\ InitEvents
    /\ [][\/ \E c \in Cycles : AdminRunPayout(c)
          \/ PayoutEngine \/ Settlement \/ Broadcaster
       ]_vars
    /\ \A c \in Cycles : WF_vars(CycleReturns(c))
    /\ WF_vars(Broadcaster)

(* ======================================================================= *)
(* Claims                                                                  *)
(* ======================================================================= *)
Quiet == \A r \in Req : req[r].pc \in {"idle", "done"}

Credited(w) == {r \in Req : req[r].status = 200 /\ req[r].wallet = w}

RECURSIVE SumScores(_)
SumScores(rs) ==
    IF rs = {} THEN 0
    ELSE LET r == CHOOSE x \in rs : TRUE IN req[r].score + SumScores(rs \ {r})

MaxScore(rs) == CHOOSE m \in {req[r].score : r \in rs} : \A r \in rs : req[r].score <= m

SameSessionObject(r1, r2) ==
    /\ r1 # r2
    /\ req[r1].object > 0
    /\ req[r1].sessionId = req[r2].sessionId
    /\ req[r1].object = req[r2].object

\* C1: of the submit-score requests that passed the check on one session (the same
\* session object of one id), at most one is answered 200 and at most one has its
\* score written to the Stats Store, however the requests overlap.
C1_OneConsumePerSession ==
    \A r1, r2 \in Req :
        SameSessionObject(r1, r2) =>
            /\ ~(req[r1].status = 200 /\ req[r2].status = 200)
            /\ ~(req[r1].lifetimeWritten /\ req[r2].lifetimeWritten)

\* C2: Expired is terminal: a session id that a successful submit-score has consumed
\* is never in the session table again.
C2_ExpiredIsTerminal ==
    \A r \in Req : req[r].status = 200 => sessions[req[r].sessionId] = NoSession

\* C3: a submit-score whose session exists but is not Paid is answered with the
\* session error (403) at once, and that step leaves the session table, the lifetime
\* rows, the daily rows and the fee journal as they were.
C3_UnpaidSubmitRejected ==
    [][\A r \in Req :
          (req[r].pc = "idle" /\ req'[r].pc # "idle" /\ req'[r].before = "Created") =>
              /\ req'[r].pc = "done"
              /\ req'[r].status = 403
              /\ ~req'[r].lifetimeWritten
              /\ UNCHANGED <<sessions, player_stats, daily_player_stats, entry_fees,
                             feeWrites, recordedFeeSessions>>]_vars

C3_Witness ==
    \E r \in Req :
        /\ req[r].status = 403
        /\ req[r].before = "Created"
        /\ SessionState(sessions[req[r].sessionId]) = "Created"

\* C4: a submit-score request gets past the session check only when its wallet is the
\* payer identity bound to the session.
C4_PayerMatch ==
    \A r \in Req : req[r].before = "Paid" => req[r].wallet = req[r].payer

\* C5: a payment proof is one-shot: one transaction hash makes at most one session
\* object Paid.
C5_ProofOneShot == \A txHash \in TxHashes : funded[txHash] <= 1

\* C6 (as claimed): verify-payment on a session id that is not in the session table
\* fails and creates no session for that id.
C6_UnknownIdRejected ==
    [][\A sessionId \in SessionIds, txHash \in TxHashes :
          (sessions[sessionId] = NoSession /\ VerifyPayment(sessionId, txHash)) =>
              /\ verifyRes'.status # 200
              /\ sessions'[sessionId] = NoSession]_vars

\* C6 (amended): verify-payment on a session id that is not in the session table
\* creates the session for that id unless the txHash is missing; the new session has
\* no payer bound, is Paid and answered 200 exactly when the txHash passes the basic
\* validation (longer than 10 characters, or any txHash in sandbox mode), and is left
\* unpaid with a 400 otherwise.
C6_UnknownIdCreated ==
    [][\A sessionId \in SessionIds, txHash \in TxHashes :
          (sessions[sessionId] = NoSession /\ VerifyPayment(sessionId, txHash)) =>
              IF txHash = ""
              THEN verifyRes'.status = 400 /\ sessions'[sessionId] = NoSession
              ELSE /\ sessions'[sessionId] # NoSession
                   /\ sessions'[sessionId].createdAt = now
                   /\ sessions'[sessionId].wallet = NoWallet
                   /\ sessions'[sessionId].isPaid <=> (SANDBOX_MODE \/ Len(txHash) > 10)
                   /\ sessions'[sessionId].paidAt =
                          IF sessions'[sessionId].isPaid THEN now ELSE NoDate
                   /\ verifyRes'.status = IF sessions'[sessionId].isPaid THEN 200 ELSE 400]_vars

C6_Witness ==
    /\ verifyRes.before = "Absent"
    /\ verifyRes.status = 200
    /\ verifyRes.sessionId \in ClientIds
    /\ SessionState(sessions[verifyRes.sessionId]) = "Paid"

\* C7 (as claimed): verify-payment on a session that is already Paid leaves the
\* session record (paid flag, paid timestamp, payer) as it was.
C7_MarkPaidNoOp ==
    [][\A sessionId \in SessionIds, txHash \in TxHashes :
          (SessionState(sessions[sessionId]) = "Paid" /\ VerifyPayment(sessionId, txHash)) =>
              sessions'[sessionId] = sessions[sessionId]]_vars

\* C7 (amended): verify-payment on a session that is already Paid keeps it Paid with
\* the same creation time and payer and makes no further session Paid; an accepted
\* call (200) overwrites the paid timestamp with the time of that call, a rejected
\* one (400) leaves the record as it was.
C7_MarkPaidRefreshesPaidAt ==
    [][\A sessionId \in SessionIds, txHash \in TxHashes :
          (SessionState(sessions[sessionId]) = "Paid" /\ VerifyPayment(sessionId, txHash)) =>
              /\ sessions'[sessionId].isPaid
              /\ sessions'[sessionId].createdAt = sessions[sessionId].createdAt
              /\ sessions'[sessionId].wallet = sessions[sessionId].wallet
              /\ created' = created
              /\ funded' = funded
              /\ IF verifyRes'.status = 200
                 THEN sessions'[sessionId].paidAt = now
                 ELSE sessions'[sessionId] = sessions[sessionId]]_vars

C7_Witness ==
    /\ verifyRes.before = "Paid"
    /\ verifyRes.status = 200
    /\ sessions[verifyRes.sessionId] # NoSession
    /\ sessions[verifyRes.sessionId].paidAt > sessions[verifyRes.sessionId].createdAt

\* C8: once every request has been answered, a player with N successful score
\* submissions has a lifetime row with totalScore = the sum of their scores,
\* highScore = their maximum and gamesPlayed = N.
C8_LifetimeAggregates ==
    Quiet =>
        \A w \in Wallets :
            Credited(w) # {} =>
                /\ player_stats[w] # NoRow
                /\ player_stats[w].totalScore = SumScores(Credited(w))
                /\ player_stats[w].highScore = MaxScore(Credited(w))
                /\ player_stats[w].gamesPlayed = Cardinality(Credited(w))

\* C9: no update is lost: once every request has been answered, none of them failed
\* and each was made on a paid session of its own, each player's lifetime and daily
\* rows count every successful submission (total and games played), also when the
\* submissions overlapped.
C9_NoLostUpdate ==
    (/\ Quiet
     /\ \A r \in Req : req[r].status # 500
     /\ \A r1, r2 \in Req : ~SameSessionObject(r1, r2)) =>
        \A w \in Wallets :
            Credited(w) # {} =>
                /\ player_stats[w] # NoRow
                /\ player_stats[w].totalScore = SumScores(Credited(w))
                /\ player_stats[w].gamesPlayed = Cardinality(Credited(w))
                /\ daily_player_stats[w] # NoRow
                /\ daily_player_stats[w].totalScoreDaily = SumScores(Credited(w))
                /\ daily_player_stats[w].gamesPlayedDaily = Cardinality(Credited(w))

\* C10: the lifetime and the daily row are updated as one unit: a score submission
\* that fails (500) has changed neither row.
C10_FailedUpdateChangesNothing ==
    \A r \in Req : req[r].status = 500 => ~req[r].lifetimeWritten

(* ------------------------- daily and lifetime rows --------------------- *)
\* C11: for every player the daily games-played count is at most the lifetime
\* games-played count, in every reachable state (shown here for submissions that are
\* each made on a paid session of their own).
C11_DailyGamesAtMostLifetime ==
    (\A r1, r2 \in Req : ~SameSessionObject(r1, r2)) =>
        \A w \in Wallets :
            OrZero(daily_player_stats[w], "gamesPlayedDaily")
                <= OrZero(player_stats[w], "gamesPlayed")

\* C12: lifetime stats are monotonic: no step lowers a player's lifetime cumulative
\* score, games-played count or maximum score, for every score submit-score accepts.
C12_LifetimeMonotonic ==
    [][\A w \in Wallets :
          /\ OrZero(player_stats'[w], "totalScore") >= OrZero(player_stats[w], "totalScore")
          /\ OrZero(player_stats'[w], "gamesPlayed") >= OrZero(player_stats[w], "gamesPlayed")
          /\ OrZero(player_stats'[w], "highScore") >= OrZero(player_stats[w], "highScore")]_vars

ResetStep(c) == cycle[c].pc = "resetDailyStats" /\ cycle'[c].outcome = "completed"

\* C13 (as claimed): the daily reset zeroes all daily fields of every daily row in
\* place and leaves every lifetime row unchanged.
C13_ResetZeroesAllDailyFields ==
    [][\A c \in Cycles :
          ResetStep(c) =>
              /\ \A w \in Wallets :
                    IF daily_player_stats[w] = NoRow
                    THEN daily_player_stats'[w] = NoRow
                    ELSE daily_player_stats'[w] =
                             [totalScoreDaily |-> 0, highScoreDaily |-> 0,
                              gamesPlayedDaily |-> 0, lastPlayedDaily |-> 0]
              /\ player_stats' = player_stats]_vars

\* C13 (amended): the daily reset zeroes the total score, high score and games-played
\* fields of every daily row in place, keeps each row and its last-played time, and
\* leaves every lifetime row unchanged.
C13_ResetZeroesScoresAndCounts ==
    [][\A c \in Cycles :
          ResetStep(c) =>
              /\ \A w \in Wallets :
                    IF daily_player_stats[w] = NoRow
                    THEN daily_player_stats'[w] = NoRow
                    ELSE daily_player_stats'[w] =
                             [totalScoreDaily |-> 0, highScoreDaily |-> 0,
                              gamesPlayedDaily |-> 0,
                              lastPlayedDaily |-> daily_player_stats[w].lastPlayedDaily]
              /\ player_stats' = player_stats]_vars

C13_Witness ==
    \E c \in Cycles, w \in Wallets :
        /\ cycle[c].outcome = "completed"
        /\ daily_player_stats[w] # NoRow
        /\ daily_player_stats[w].gamesPlayedDaily = 0
        /\ daily_player_stats[w].totalScoreDaily = 0
        /\ daily_player_stats[w].lastPlayedDaily > 0
        /\ player_stats[w] # NoRow
        /\ player_stats[w].gamesPlayed > 0

(* ------------------------------ payout cycles -------------------------- *)
InProgress(c) == cycle[c].pc \notin {"idle", "done"}

\* C14: at no time are two payout cycles in progress, whether they were started by
\* the timer or by /admin/run-payout.
C14_NoOverlappingCycles ==
    \A c1, c2 \in Cycles : (InProgress(c1) /\ InProgress(c2)) => c1 = c2

AllocationStep(c) ==
    cycle[c].pc = "getDailyLeaderboardHigh" /\ cycle'[c].settlement # "none"

DailyZeroed(table) ==
    \A w \in Wallets :
        table[w] # NoRow =>
            /\ table[w].totalScoreDaily = 0
            /\ table[w].highScoreDaily = 0
            /\ table[w].gamesPlayedDaily = 0

\* C15: a cycle that read a zero fee pool allocates nothing (no winner, no reward, a
\* treasury entry of zero) and goes on; when its daily reset returns, the daily stats
\* are zeroed, lastPayoutAt is the cycle's start and nextPayoutAt is 24h later, and
\* the overlap flag of a manual run is released.
C15_ZeroPoolCycleCompletes ==
    [][\A c \in Cycles :
          cycle[c].totalPool = 0 =>
              /\ AllocationStep(c) =>
                    /\ cycle'[c].winnersArray = <<>>
                    /\ cycle'[c].rewardsArray = <<>>
                    /\ cycle'[c].pc \in {"endCycle", "resetDailyStats"}
                    /\ logWrites' \ logWrites = {TreasuryEntry(c, 0)}
                    /\ TreasuryEntry(c, 0).amount = 0
              /\ ResetStep(c) =>
                    /\ DailyZeroed(daily_player_stats')
                    /\ lastPayoutAt' = cycle[c].now
                    /\ nextPayoutAt' = cycle[c].now + DAY
                    /\ cycle[c].trigger = "manual" => ~isPayoutRunning']_vars

\* a zero-pool cycle that saw daily scores has completed and moved the schedule
C15_Witness ==
    \E c \in Cycles :
        /\ cycle[c].outcome = "completed"
        /\ cycle[c].totalPool = 0
        /\ cycle[c].totalEntries # <<>>
        /\ cycle[c].highEntries # <<>>
        /\ cycle[c].now > cycle[c].windowStart
        /\ lastPayoutAt = cycle[c].now
        /\ DailyZeroed(daily_player_stats)

IsPrefix(s, t) == Len(s) <= Len(t) /\ SubSeq(t, 1, Len(s)) = s

InLog(entry) == \E i \in 1..Len(payoutsLog) : payoutsLog[i] = entry

C17_JournalBeforeSettlement ==
    \A c \in Cycles :
        cycle[c].endCycleCalls > 0 =>
            \A entry \in RewardEntries(c, cycle[c].totalEntries, cycle[c].highEntries,
                                       cycle[c].rewardTotalMap, cycle[c].rewardHighMap)
                         \cup {TreasuryEntry(c, cycle[c].totalPool)} :
                InLog(entry)

\* C18: lastPayoutAt and nextPayoutAt change only in the step in which the daily reset
\* of a cycle returns, to that cycle's start time and 24h after it; a cycle aborted by
\* a store failure leaves both as they were; and the step is the same whether the
\* settlement succeeded, failed or was not made.
C18_ScheduleMovesOnCompletion ==
    [][/\ (lastPayoutAt' # lastPayoutAt \/ nextPayoutAt' # nextPayoutAt) =>
              \E c \in Cycles : ResetStep(c)
       /\ \A c \in Cycles :
              /\ ResetStep(c) =>
                    /\ cycle[c].settlement \in {"succeeded", "failed", "skipped"}
                    /\ lastPayoutAt' = cycle[c].now
                    /\ nextPayoutAt' = cycle[c].now + DAY
              /\ (cycle[c].outcome = "none" /\ cycle'[c].outcome = "aborted") =>
                    /\ lastPayoutAt' = lastPayoutAt
                    /\ nextPayoutAt' = nextPayoutAt]_vars

\* one cycle was aborted without moving the schedule, a later one completed after a
\* failed settlement and moved it
C18_Witness ==
    \E c1, c2 \in Cycles :
        /\ cycle[c1].outcome = "aborted"
        /\ cycle[c1].now > cycle[c1].windowStart
        /\ cycle[c2].windowStart = cycle[c1].windowStart
        /\ cycle[c2].outcome = "completed"
        /\ cycle[c2].settlement = "failed"
        /\ lastPayoutAt = cycle[c2].now
        /\ lastPayoutAt > cycle[c2].windowStart

\* C19: the pool a cycle reads is the sum of the fee records recorded since the start
\* of the current cycle (the last completed payout), also for a manual trigger.
C19_PoolIsWindowSum ==
    [][\A c \in Cycles :
          (cycle[c].pc = "getTotalEntryFeesSince" /\ cycle'[c].pc = "getDailyScoresSumTotal") =>
              cycle'[c].totalPool =
                  SumAmounts(SelectSeq(entry_fees,
                                       LAMBDA fee : fee.timestamp >= cycle[c].windowStart))]_vars

RECURSIVE SumNum(_, _)
SumNum(map, ws) ==
    IF ws = {} THEN 0
    ELSE LET w == CHOOSE x \in ws : TRUE IN map[w].num + SumNum(map, ws \ {w})

RECURSIVE SumEntries(_)
SumEntries(entries) ==
    IF entries = <<>> THEN 0 ELSE Head(entries).score + SumEntries(Tail(entries))

Abs(x) == IF x < 0 THEN -x ELSE x

\* C20: in a cycle that has computed its allocation from a non-empty list of daily
\* totals and a non-zero pool, every listed player has the volume reward
\* dailyTotal / sum(dailyTotals) * poolByVolume and the volume rewards sum to
\* poolByVolume within one unit per participant.
C20_VolumeShares ==
    \A c \in Cycles :
        (/\ cycle[c].settlement # "none"
         /\ cycle[c].totalEntries # <<>>
         /\ cycle[c].totalPool > 0) =>
            LET map == cycle[c].rewardTotalMap
                entries == cycle[c].totalEntries
                pool == poolTotal(cycle[c].totalPool)
            IN  /\ DOMAIN map = Keys(entries)
                /\ \A w \in DOMAIN map :
                      map[w].num * SumEntries(entries) = ScoreOf(entries, w) * pool * map[w].den
                /\ \A w \in DOMAIN map :
                      Abs(SumNum(map, DOMAIN map) - pool * map[w].den)
                          <= Cardinality(DOMAIN map) * map[w].den

\* the allocation of cycle c has been computed
Allocated(c) == cycle[c].settlement # "none"

\* P = 25% of the pool, in 10^-6 units
PeakPool(c) == cycle[c].totalPool * 250000

\* C21: the peak share P is 25% of the pool and goes to the players with a daily high
\* score above 0, ranked by that score, highest first: one player takes P, two take
\* 70% and 30%, three or more give 60%, 25% and 15% to exactly the first three and
\* nothing to anyone else; nothing is allocated when P = 0 or nobody qualifies
C21_PeakShares ==
    \A c \in Cycles :
        Allocated(c) =>
            LET ranked == cycle[c].highEntries
                n == Len(ranked)
                P == PeakPool(c)
                peak == cycle[c].rewardHighMap
                first(k) == {ranked[i].wallet : i \in 1..k}
            IN  /\ \A i \in 1..n : ranked[i].score > 0
                /\ \A i \in 1..(n - 1) : ranked[i].score >= ranked[i + 1].score
                /\ (P = 0 \/ n = 0) => DOMAIN peak = {}
                /\ (P > 0 /\ n = 1) =>
                       DOMAIN peak = first(1) /\ peak[ranked[1].wallet] = P
                /\ (P > 0 /\ n = 2) =>
                       /\ DOMAIN peak = first(2)
                       /\ 100 * peak[ranked[1].wallet] = 70 * P
                       /\ 100 * peak[ranked[2].wallet] = 30 * P
                /\ (P > 0 /\ n >= 3) =>
                       /\ DOMAIN peak = first(3)
                       /\ 100 * peak[ranked[1].wallet] = 60 * P
                       /\ 100 * peak[ranked[2].wallet] = 25 * P
                       /\ 100 * peak[ranked[3].wallet] = 15 * P
                       /\ \A i \in 4..n : ranked[i].wallet \notin DOMAIN peak

\* four players qualify, the pool is not empty: the fourth gets no peak share
C21_Witness ==
    \E c \in Cycles :
        /\ Allocated(c)
        /\ Len(cycle[c].highEntries) = 4
        /\ cycle[c].totalPool > 0
        /\ Cardinality(DOMAIN cycle[c].rewardHighMap) = 3

\* the position of wallet w in a leaderboard, 0 when it is not on it
RankIn(entries, w) ==
    IF \E i \in 1..Len(entries) : entries[i].wallet = w
    THEN CHOOSE i \in 1..Len(entries) : entries[i].wallet = w
    ELSE 0

\* the percentage of P that rank i of n qualifying players takes
TierPercent(n, i) ==
    IF i = 0 \/ i > 3 THEN 0
    ELSE IF n = 1 THEN 100
    ELSE IF n = 2 THEN (IF i = 1 THEN 70 ELSE 30)
    ELSE (IF i = 1 THEN 60 ELSE IF i = 2 THEN 25 ELSE 15)

\* volume share + peak share of wallet w in cycle c, as a fraction of one 10^-6 unit:
\* dailyTotal / sum of daily totals of 70% of the pool, plus its tier of 25% of the pool
ExactAward(c, w) ==
    LET sum == cycle[c].sumTotalScores
        pool == cycle[c].totalPool
        den == IF sum > 0 THEN sum ELSE 1
        volume == IF sum > 0 THEN ScoreOf(cycle[c].totalEntries, w) * pool * 700000 ELSE 0
        peak == (PeakPool(c) * TierPercent(Len(cycle[c].highEntries),
                                           RankIn(cycle[c].highEntries, w))) \div 100
    IN  [num |-> volume + peak * den, den |-> den]

AwardOf(c, w) == cycle[c].rewardsArray[RankIn([i \in 1..Len(cycle[c].winnersArray) |->
                                                 [wallet |-> cycle[c].winnersArray[i]]], w)]

\* C22: a player's award is its volume share plus its peak share: the amount allocated
\* to every player on a leaderboard is within one unit of that sum, a player with a
\* daily total above 0 outside the top 3 gets its volume share only, and a sole entrant
\* gets all of both shares (95% of the pool)
C22_AwardIsSum ==
    \A c \in Cycles :
        (Allocated(c) /\ cycle[c].totalPool > 0) =>
            LET entrants == Keys(cycle[c].totalEntries) \cup Keys(cycle[c].highEntries)
            IN  /\ entrants = {cycle[c].winnersArray[i] : i \in 1..Len(cycle[c].winnersArray)}
                /\ \A w \in entrants :
                       LET x == ExactAward(c, w)
                       IN  /\ Abs(AwardOf(c, w) * x.den - x.num) < x.den
                           /\ RankIn(cycle[c].highEntries, w) > 3 =>
                                  Abs(AwardOf(c, w) * cycle[c].sumTotalScores
                                        - ScoreOf(cycle[c].totalEntries, w)
                                            * cycle[c].totalPool * 700000)
                                      < cycle[c].sumTotalScores
                /\ Cardinality(entrants) = 1 =>
                       \A w \in entrants : AwardOf(c, w) = cycle[c].totalPool * 950000

\* fees [1, 1, 1], daily totals and highs {A: 10, B: 20}: A gets 0.925, B gets 1.925
C22_Witness ==
    \E c \in Cycles, A, B \in Wallets :
        /\ Allocated(c)
        /\ cycle[c].totalPool = 3
        /\ cycle[c].totalEntries = <<[rank |-> 1, wallet |-> B, score |-> 20],
                                     [rank |-> 2, wallet |-> A, score |-> 10]>>
        /\ cycle[c].highEntries = cycle[c].totalEntries
        /\ AwardOf(c, A) = 925000
        /\ AwardOf(c, B) = 1925000

\* C23: the amount submitted for a player is its exact award rounded to the nearest
\* 10^-6 unit, not cut off: it is at most half a unit, hence at most one unit, away
C23_RoundedToNearest ==
    \A c \in Cycles :
        Allocated(c) =>
            \A i \in 1..Len(cycle[c].winnersArray) :
                LET x == ExactAward(c, cycle[c].winnersArray[i])
                    units == cycle[c].rewardsArray[i]
                IN  /\ 2 * Abs(units * x.den - x.num) <= x.den
                    /\ Abs(units * x.den - x.num) <= x.den

\* an award of 466666.67 units (two thirds of the volume share of one fee, no peak share)
\* is submitted as 466667
C23_Witness ==
    \E c \in Cycles :
        /\ Allocated(c)
        /\ \E i \in 1..Len(cycle[c].winnersArray) :
               LET x == ExactAward(c, cycle[c].winnersArray[i])
               IN  /\ x.num % x.den # 0
                   /\ cycle[c].rewardsArray[i] * x.den > x.num

\* C24: a cycle calls the settlement contract at most once, with the whole allocation:
\* the list of wallets and the list of amounts have the same length, no wallet is listed
\* twice, every allocated wallet is listed, and the amount at index i is the award of the
\* wallet at index i; the number of calls does not grow with the number of players
C24_OneAlignedSettlement ==
    \A c \in Cycles :
        LET winners == cycle[c].winnersArray
            rewards == cycle[c].rewardsArray
        IN  /\ cycle[c].endCycleCalls <= 1
            /\ cycle[c].endCycleCalls = 1 <=> cycle[c].settlement \in {"called", "succeeded", "failed"}
            /\ Len(winners) = Len(rewards)
            /\ \A i, j \in 1..Len(winners) : i # j => winners[i] # winners[j]
            /\ Allocated(c) =>
                   /\ {winners[i] : i \in 1..Len(winners)}
                          = DOMAIN cycle[c].rewardTotalMap \cup DOMAIN cycle[c].rewardHighMap
                   /\ \A i \in 1..Len(winners) :
                          LET x == ExactAward(c, winners[i])
                          IN  2 * Abs(rewards[i] * x.den - x.num) <= x.den

\* a settlement call that carries four players with three different amounts
C24_Witness ==
    \E c \in Cycles :
        /\ cycle[c].endCycleCalls = 1
        /\ cycle[c].settlement = "succeeded"
        /\ Len(cycle[c].winnersArray) = 4
        /\ Cardinality({cycle[c].rewardsArray[i] : i \in 1..4}) >= 3

\* the settlement of cycle c succeeds / fails in this step
SettlementSucceeds(c) == cycle[c].settlement = "called" /\ cycle'[c].settlement = "succeeded"

SettlementFails(c) == cycle[c].settlement = "called" /\ cycle'[c].settlement = "failed"

\* C25: lastTxHash and lastTxLink change only in the step in which a settlement call
\* succeeds, and then to the hash and the link of that transaction; the step in which a
\* settlement fails leaves both as they were, appends an error entry with the message of
\* the failure, and removes or alters no entry of the log, written or pending
C25_LastTxOnlyAfterSuccess ==
    [][/\ (lastTxHash' # lastTxHash \/ lastTxLink' # lastTxLink) =>
              \E c \in Cycles : SettlementSucceeds(c)
       /\ \A c \in Cycles :
              /\ SettlementSucceeds(c) =>
                     /\ lastTxHash' = c
                     /\ lastTxLink' = <<"basescan.org/tx/", c>>
              /\ SettlementFails(c) =>
                     /\ lastTxHash' = lastTxHash
                     /\ lastTxLink' = lastTxLink
                     /\ cycle'[c].error \in ErrorMessages
                     /\ logWrites' = logWrites \cup {ErrorEntry(c, cycle'[c].error)}
                     /\ ErrorEntry(c, cycle'[c].error) \notin logWrites
                     /\ payoutsLog' = payoutsLog]_vars

\* the first cycle settled, the second failed: the status still shows the first
\* transaction, and the log holds the first cycle's entries and the error entry
C25_Witness ==
    \E c1, c2 \in Cycles :
        /\ cycle[c1].settlement = "succeeded"
        /\ cycle[c2].settlement = "failed"
        /\ lastTxHash = c1
        /\ lastTxLink = <<"basescan.org/tx/", c1>>
        /\ InLog(TreasuryEntry(c1, 0))
        /\ InLog(ErrorEntry(c2, cycle[c2].error))

\* the channel of connection id is open: the handler ran and the connection is alive
OpenChannel(id) == sseRes[id].socket \in {"open", "slow"}

Listed(id) == \E i \in 1..Len(sseClients) : sseClients[i] = id

\* C26: every publication writes the event to every open subscriber channel, whatever
\* the state of the other subscribers: one that is slow, or whose connection is gone
\* and still listed, does not keep the event from the others
C26_PublishReachesEveryOpenChannel ==
    [][\A event \in PayoutEvents :
          published' = Append(published, event) =>
              \A id \in SseIds :
                  OpenChannel(id) =>
                      /\ Listed(id)
                      /\ sseRes'[id].written = Append(sseRes[id].written, event)]_vars

\* the first subscriber of the list is gone, the second is slow and has received an
\* event published after the first one was lost
C26_Witness ==
    \E id1, id2 \in SseIds :
        /\ Len(sseClients) = 2
        /\ sseClients[1] = id1 /\ sseClients[2] = id2
        /\ sseRes[id1].socket = "destroyed"
        /\ sseRes[id2].socket = "slow"
        /\ sseRes[id1].closed < Len(published)
        /\ sseRes[id2].written = SubSeq(published, sseRes[id2].joined + 1, Len(published))
        /\ Len(sseRes[id2].written) > sseRes[id1].closed - sseRes[id2].joined
        /\ sseRes[id2].written # <<>>

\* C27: a subscriber receives exactly the events published between its join and the
\* close of its connection, in publication order: nothing published before it joined
\* is replayed, and nothing is written to it after its connection closed
C27_JoinToClose ==
    \A id \in SseIds :
        LET res == sseRes[id]
            until == IF OpenChannel(id) THEN Len(published) ELSE res.closed
        IN  /\ res.socket = "none" => res.written = <<>>
            /\ res.socket # "none" => res.written = SubSeq(published, res.joined + 1, until)
            /\ res.socket = "closed" => ~Listed(id)

\* a subscriber joined after one event, received the next one and left before a third
C27_Witness ==
    \E id \in SseIds :
        /\ sseRes[id].socket = "closed"
        /\ sseRes[id].joined = 1
        /\ sseRes[id].closed = 2
        /\ Len(published) = 3
        /\ sseRes[id].written = <<published[2]>>
        /\ published[1] # published[2] /\ published[3] # published[2]

\* the table and the score column a leaderboard response was asked for
BoardTable(res) == IF res.scope = "lifetime" THEN player_stats ELSE daily_player_stats

BoardColumn(res) ==
    IF res.scope = "lifetime"
    THEN (IF res.type = "total" THEN "totalScore" ELSE "highScore")
    ELSE (IF res.type = "total" THEN "totalScoreDaily" ELSE "highScoreDaily")

\* C28: a leaderboard of either table has at most limit entries (limit a count, 0 or
\* more), each entry is a player of that table with its score in the requested column,
\* no player twice, scores descending, nobody left out in favour of a lower score, and
\* entry i has rank i
C28_LeaderboardOrderedAndRanked ==
    leaderboardRes.status = 200 =>
        LET board == leaderboardRes.leaderboard
            table == BoardTable(leaderboardRes)
            col == BoardColumn(leaderboardRes)
            N == Len(board)
            listed == {board[i].wallet : i \in 1..N}
        IN  /\ leaderboardRes.limit >= 0 => N <= leaderboardRes.limit
            /\ \A i \in 1..N :
                   /\ board[i].rank = i
                   /\ table[board[i].wallet] # NoRow
                   /\ board[i].score = table[board[i].wallet][col]
            /\ \A i, j \in 1..N : i # j => board[i].wallet # board[j].wallet
            /\ \A i \in 1..(N - 1) : board[i].score >= board[i + 1].score
            /\ \A w \in Wallets \ listed :
                   (table[w] # NoRow /\ table[w][col] > 0) =>
                       /\ N = leaderboardRes.limit
                       /\ \A i \in 1..N : board[i].score >= table[w][col]

\* a lifetime leaderboard by total score with limit 2 over three players with
\* different totals: two entries, the lowest total left out
C28_Witness ==
    /\ leaderboardRes.status = 200
    /\ leaderboardRes.scope = "lifetime"
    /\ leaderboardRes.type = "total"
    /\ leaderboardRes.limit = 2
    /\ Len(leaderboardRes.leaderboard) = 2
    /\ leaderboardRes.leaderboard[1].score > leaderboardRes.leaderboard[2].score
    /\ \E w \in Wallets :
           /\ player_stats[w] # NoRow
           /\ player_stats[w].totalScore > 0
           /\ player_stats[w].totalScore < leaderboardRes.leaderboard[2].score

\* the code that told the caller of request r that it failed, 0 when it did not fail
ErrorCode(r) == IF req[r].status >= 400 THEN req[r].status ELSE 0

\* a manual payout that failed is answered with an error code, and not with the code of
\* a rejected overlapping trigger
FailedPayoutReported ==
    \A c \in Cycles :
        (cycle[c].trigger = "manual" /\ cycle[c].outcome = "aborted") =>
            (cycle[c].status >= 400 /\ cycle[c].status # 409)

\* C29: every error reaches the caller with a code of its own: a submit-score on an
\* absent session and one on an unpaid session are answered with different codes, and
\* a manual payout that failed is answered with an error code other than the one of a
\* rejected overlapping trigger
C29_DistinctErrorCodes ==
    /\ \A r1, r2 \in Req :
           (/\ ErrorCode(r1) # 0 /\ req[r1].before = "Absent"
            /\ ErrorCode(r2) # 0 /\ req[r2].before = "Created") =>
               ErrorCode(r1) # ErrorCode(r2)
    /\ FailedPayoutReported

\* the tokens a request presents: the credentials of a Bearer (or bare) Authorization
\* header and the x-admin-token header
Presented(authorization, header) ==
    (IF authorization # <<>> /\ authorization[1] \in {"Bearer", ""}
     THEN {authorization[2]} ELSE {})
        \cup (IF header # NoToken THEN {header} ELSE {})

CarriesAdminToken(authorization, header) ==
    ADMIN_TOKEN # NoToken /\ ADMIN_TOKEN \in Presented(authorization, header)

\* C30: POST /admin/run-payout starts a payout cycle only for a request that carries the
\* configured admin token; a request without it, or any request when no token is
\* configured, is answered 401 or 503, starts no cycle and changes nothing: the overlap
\* flag, the schedule, the tables, the log and the last transaction stay as they were
C30_RunPayoutIsPrivileged ==
    [][\A c \in Cycles, authorization \in Authorizations, header \in HeaderTokens :
          PostRunPayout(c, authorization, header) =>
              /\ cycle'[c].pc = "getTotalEntryFeesSince" =>
                     CarriesAdminToken(authorization, header)
              /\ ~CarriesAdminToken(authorization, header) =>
                     /\ cycle'[c].pc = "done"
                     /\ cycle'[c].status \in {401, 503}
                     /\ cycle'[c].status = 503 <=> ADMIN_TOKEN = NoToken
                     /\ \A d \in Cycles \ {c} : cycle'[d] = cycle[d]
                     /\ UNCHANGED <<isPayoutRunning, lastPayoutAt, nextPayoutAt, lastTxHash,
                                    lastTxLink, timerAt, logWrites, payoutsLog, entry_fees,
                                    player_stats, daily_player_stats, sessions>>]_vars

\* a request without the token was turned away while a cycle started by an authorised
\* request was in progress, and that cycle went on
C30_Witness ==
    \E c, d \in Cycles :
        /\ cycle[c].trigger = "manual"
        /\ cycle[c].status = 0
        /\ cycle[c].pc = "getDailyScoresSumTotal"
        /\ cycle[d].status = 401
        /\ isPayoutRunning

(* ------------------------------------------------------------------------ *)
\* the INSERT of the fee write at position i of feeWrites completes in this step
FeeAppended(i) ==
    /\ i \in 1..Len(feeWrites)
    /\ feeWrites' = RemoveAt(feeWrites, i)
    /\ Len(entry_fees') = Len(entry_fees) + 1

\* C31: the entry fee is recorded once per session: a fee record is appended only for
\* a session id that has no fee record yet (recordedFeeSessions holds exactly the ids
\* whose fee record was appended), under any interleaving of join and verify-payment
\* requests, also when a second verify-payment arrives before the first write is done.
C31_FeeOncePerSession ==
    [][\A i \in 1..MaxFees :
          FeeAppended(i) => feeWrites[i].sessionId \notin recordedFeeSessions]_vars

(* ------------------------------------------------------------------------ *)
\* C32: the payout cycle drives the event fan-out: once a cycle has invoked the
\* settlement and the settlement has completed, a notice is published by the
\* broadcaster (at the latest some time after the completion).
C32_SettlementIsPublished ==
    (\E c \in Cycles : cycle[c].settlement = "succeeded") ~> (published # <<>>)

(* ------------------------------------------------------------------------ *)
\* C33: end-to-end play flow: every game the client starts after access was granted
\* (by a successful x402 /join or by a successful verify-payment) is started with the
\* session id of the paid server session, so that at game over the score is submitted
\* for that session.
C33_GamePlaysThePaidSession ==
    /\ client.pc \in {"playing", "over"} => client.sessionId = client.granted
    /\ client.pc = "over" => client.submitted

(* ------------------------------------------------------------------------ *)
DailyWrite(r) == req[r].pc = "runDailyPlayerStats" /\ req'[r].status = 200

\* C34: every credited score is counted by exactly one payout cycle: a score that the
\* daily reset zeroes was part of the allocation of the cycle that resets (it is the
\* score the cycle read for that wallet), and a daily update never brings back a score
\* that a cycle has counted and reset (it adds its own score to the row as it is).
C34_ScoreCountedByOneCycle ==
    [][/\ \A c \in Cycles :
             ResetStep(c) =>
                 \A w \in Wallets :
                     OrZero(daily_player_stats[w], "totalScoreDaily")
                         = ScoreOf(cycle[c].totalEntries, w)
       /\ \A r \in Req :
             DailyWrite(r) =>
                 daily_player_stats'[req[r].wallet].totalScoreDaily
                     = OrZero(daily_player_stats[req[r].wallet], "totalScoreDaily")
                           + req[r].score]_vars

(* ------------------------------------------------------------------------ *)
RECURSIVE SumUnits(_)
SumUnits(rewards) ==
    IF rewards = <<>> THEN 0 ELSE Head(rewards) + SumUnits(Tail(rewards))

\* C35: no over-distribution: in every payout cycle the unit amounts handed to the
\* ledger for all winners plus the treasury amount (5% of the pool) in units do not
\* exceed the cycle's pool in units.
C35_NoOverDistribution ==
    \A c \in Cycles :
        SumUnits(cycle[c].rewardsArray) + poolTreasury(cycle[c].totalPool)
            <= cycle[c].totalPool * 10^usdcDecimals

(* ------------------------------------------------------------------------ *)
\* the paid sessions whose score was credited: concurrent submissions that consumed
\* the same session object are one play
CreditedPlays == {<<req[r].sessionId, req[r].object>> : r \in {x \in Req : req[x].status = 200}}

\* C36: every credited play is backed by a recorded fee: the number of credited plays
\* does not exceed the number of fee records in the fee journal plus the fee writes
\* still in flight, also when a session id is paid again after it expired.
C36_CreditedPlaysBackedByFees ==
    Cardinality(CreditedPlays) <= Len(entry_fees) + Len(feeWrites)

(* ------------------------------------------------------------------------ *)
\* C37: lastPayoutAt never decreases: across any sequence and interleaving of timer
\* and manually triggered payout cycles each update of lastPayoutAt sets a value
\* greater than or equal to the previous one, and nextPayoutAt is always lastPayoutAt
\* plus 24 hours.
C37_LastPayoutAtMonotonic ==
    /\ nextPayoutAt = lastPayoutAt + DAY
    /\ [][/\ lastPayoutAt' >= lastPayoutAt
          /\ nextPayoutAt' = lastPayoutAt' + DAY]_vars

(* ------------------------------------------------------------------------ *)
TimerStarts(c) == cycle[c].pc = "idle" /\ cycle'[c].trigger = "timer"

\* C38: the published schedule is truthful: no timer-triggered payout cycle begins
\* before the nextPayoutAt that /payouts/status reports at that moment, also after a
\* manual /admin/run-payout has moved nextPayoutAt to 24 hours after the manual run.
C38_TimerNotBeforeNextPayoutAt ==
    [][\A c \in Cycles : TimerStarts(c) => now >= nextPayoutAt]_vars

(* ------------------------------------------------------------------------ *)
Accepted(c) == cycle[c].trigger = "manual" /\ InProgress(c)

\* C39: the overlap flag is always released: every accepted manual /admin/run-payout,
\* given that every store and ledger call returns, comes to its end, and the step
\* that ends it sets isPayoutRunning to false and answers the request with 200,
\* whether the cycle completed or was aborted by a failing store call and whether
\* the settlement succeeded, failed or was skipped.
C39_FlagAlwaysReleased ==
    /\ [][\A c \in Cycles :
             (Accepted(c) /\ cycle'[c].pc = "done") =>
                 /\ ~isPayoutRunning'
                 /\ cycle'[c].status = 200
                 /\ cycle'[c].outcome \in {"completed", "aborted"}]_vars
    /\ \A c \in Cycles : Accepted(c) ~> (cycle[c].pc = "done" /\ cycle[c].status = 200)

\* one manual run was aborted by a store failure, a later one was accepted, failed
\* to settle and completed; the flag is down
C39_Witness ==
    \E c1, c2 \in Cycles :
        /\ c1 < c2
        /\ cycle[c1].trigger = "manual" /\ cycle[c1].outcome = "aborted"
        /\ cycle[c1].status = 200
        /\ cycle[c2].trigger = "manual" /\ cycle[c2].outcome = "completed"
        /\ cycle[c2].settlement = "failed" /\ cycle[c2].status = 200
        /\ ~isPayoutRunning

(* ------------------------------------------------------------------------ *)
UpdateFails(r) ==
    /\ req[r].pc \in {"getPlayerStats", "runPlayerStats",
                      "getDailyPlayerStats", "runDailyPlayerStats"}
    /\ req'[r].pc = "done"
    /\ req'[r].status # 200

\* C40: if the Stats Store update fails during submit-score, the request reports an
\* error (500) and the session stays in the session table in state Paid: the failing
\* step changes no session, and the session of a failed request is still Paid.
C40_FailedUpdateKeepsSessionPaid ==
    /\ [][\A r \in Req :
             UpdateFails(r) =>
                 /\ req'[r].status = 500
                 /\ sessions' = sessions
                 /\ SessionState(sessions'[req[r].sessionId]) = "Paid"]_vars
    /\ [](\A r \in Req :
             req[r].status = 500 => SessionState(sessions[req[r].sessionId]) = "Paid")

\* a submission on a paid session failed in the store after its lifetime row was
\* written; the session is still there and paid
C40_Witness ==
    \E r \in Req :
        /\ req[r].status = 500
        /\ req[r].before = "Paid"
        /\ req[r].lifetimeWritten
        /\ SessionState(sessions[req[r].sessionId]) = "Paid"

====
